---- MODULE Spec2Model ----
(***************************************************************************)
(* Model of the OCR worker's durable job engine: the KladosJobDO Durable   *)
(* Object (start / status / alarm), the processJob pipeline it drives, and *)
(* the Mistral OCR client with its retry loop.                             *)
(*                                                                         *)
(* One Durable Object instance is modelled (one job identity).  An async   *)
(* handler is cut at its awaits of external I/O: each action is the        *)
(* synchronous run of code between two such awaits.  Fetch handlers may    *)
(* run while alarm() is suspended on an await; alarm() never overlaps      *)
(* with itself.                                                            *)
(***************************************************************************)
EXTENDS Integers, Sequences, FiniteSets, TLC

(***************************************************************************)
(* Bounds of the model                                                     *)
(***************************************************************************)
\* deliveries of alarm() beyond the ones an armed alarm accounts for
\* (at-least-once delivery, retry of a rejected alarm handler)
MaxExtraWakes == 1

\* callMistralOCR invoked on its own: maxRetries ranges over 0..MaxRetriesArg
MaxRetriesArg == 6

\* Math.random() ranges over the fractions k / RandomSteps, 0 <= k < RandomSteps
RandomSteps == 2

\* resolveJpegFile invoked on its own: content maps of up to MaxFiles files
MaxFiles == 2

\* replaceImageRefs invoked on its own: markdown of up to MaxItems items
MaxItems == 2

\* alarm() with any pipeline behind it: processJob is invoked at most
\* MaxPipelineRuns times
MaxPipelineRuns == 3

(***************************************************************************)
(* Values                                                                  *)
(***************************************************************************)
\* SQL NULL / JS null / undefined; a present value v is Some(v)
NULL == <<>>
Some(v) == <<v>>
Val(x) == x[1]

\* an optional field of an upstream response that is absent: JS undefined,
\* where it has to be told from null
undefined == <<NULL, NULL>>

\* the job identity the modelled Durable Object is addressed by
JobId == "job_1"

\* entity identifiers: the source entity, and the n-th entity created
SourceId == "ent_0"
ChildIds == <<"ent_1", "ent_2", "ent_3", "ent_4", "ent_5", "ent_6", "ent_7", "ent_8">>
ChildId(n) == ChildIds[n]

\* optional workflow context of a request (request.rhiza)
Rhizas == {NULL, Some([id |-> "rhiza_1", path |-> <<"ocr">>])}

\* KladosRequest values delivered to /process: with and without a target,
\* workflow context and explicit file key (request.input.target_file_key)
Requests ==
  { r \in [job_id : {JobId}, target_entity : {NULL, Some(SourceId)},
           target_collection : {"col_1"}, job_collection : {"jobs_1"},
           rhiza : Rhizas, input : {[target_file_key |-> NULL],
                                    [target_file_key |-> Some("a")]}]
    : /\ r.target_entity = NULL => r.rhiza = NULL
      /\ r.input.target_file_key # NULL => r.rhiza = NULL /\ r.target_entity # NULL }

\* worker environments (bindings) a /process call may run under
Envs ==
  { [AGENT_ID |-> "agent_1", AGENT_VERSION |-> v, ARKE_AGENT_KEY |-> "key_1",
     MISTRAL_API_KEY |-> "mkey_1"]
    : v \in {"1.0.0", "1.0.1"} }

\* values generateId() may return
GeneratedIds == {"id_a", "id_b"}

\* JSON.stringify / JSON.parse of a plain JSON value
JSONstringify(x) == [json |-> x]
JSONparse(s) == s.json

\* Date.prototype.toISOString
toISOString(t) == [iso |-> t]

\* a thrown Error and the message the catch clause extracts from it
Error(m) == [instanceofError |-> TRUE, message |-> m]
errorMessageOf(e) == IF e.instanceofError THEN e.message ELSE e.value

\* errors with which a call to an external service may reject
ExternalErrors == {Error(<<"fetch failed">>)}

(***************************************************************************)
(* State                                                                   *)
(***************************************************************************)
VARIABLES
  job_state,    \* the rows of SQLite table job_state
  alarm,        \* the Durable Object's pending alarm: NULL or Some(time)
  now,          \* Date.now(); time advances to an alarm's time when it fires
  resp,         \* the last Response a fetch handler returned
  pc,           \* where alarm() is suspended ("idle": not running)
  al,           \* the locals of the running alarm()
  pj,           \* the locals of the running processJob()
  outcome,      \* how the last alarm() that did work ended, and whether
                \* its catch clause had caught an error
  klados_logs,  \* the klados_log files in the job collection (external)
  source,       \* the source entity as the entity store holds it (external)
  children,     \* the entities the job created in the store (external)
  extraWakes,   \* number of alarm() deliveries without a consumed alarm
  dupStart,     \* the status the latest duplicate start call found ("none"
                \* while no start call has found a row)
  setAlarms,    \* number of setAlarm calls made so far
  processJobs,  \* number of processJob invocations so far
  other,        \* step 8 of the pipeline of another job (another Durable
                \* Object) that targets the same source entity
  invocation    \* a function of the pipeline invoked on its own: its
                \* arguments, its locals and its result

vars == <<job_state, alarm, now, resp, pc, al, pj, outcome, klados_logs,
          source, children, extraWakes, dupStart, setAlarms, processJobs,
          other, invocation>>

\* what only alarm() and the calls it makes write
alarmVars == <<pc, al, pj, outcome, klados_logs, source, children, processJobs>>

NoResp == [status |-> 0, body |-> [none |-> TRUE]]
NoLocals == [request |-> NULL, config |-> NULL, logId |-> NULL,
             logFileId |-> NULL, error |-> NULL, errorMessage |-> NULL,
             result |-> NULL, handoffResult |-> NULL]
NoOutcome == [ended |-> "never", caught |-> FALSE]
NoSource == [tip |-> 1, properties |-> NULL, relationships_add |-> <<>>]
NoOther == [tipData |-> NULL, updated |-> NULL, landed |-> NULL]
NoInvocation == [of |-> "none"]

\* what the handlers of the modelled Durable Object never touch
elsewhere == <<other, invocation>>

\* the state of the modelled Durable Object and of what its job wrote
jobVars == <<job_state, alarm, now, resp, pc, al, pj, outcome, klados_logs,
             source, children, extraWakes, dupStart, setAlarms, processJobs>>

(***************************************************************************)
(* SQL statements on job_state                                             *)
(***************************************************************************)
\* SELECT ... FROM job_state WHERE id = 1
SelectRow(table) == {r \in table : r.id = 1}

\* mutant of InsertRow: the row is inserted as already processing
InsertRow_processing(table, request, config, logId, createdAt) ==
  table \cup {[id |-> 1, request |-> request, config |-> config,
               log_id |-> logId, log_file_id |-> NULL, status |-> "processing",
               created_at |-> createdAt, error |-> NULL]}

\* INSERT INTO job_state (id, request, config, log_id, status, created_at)
\* VALUES (1, ?, ?, ?, 'accepted', ?); log_file_id and error default to NULL
InsertRow(table, request, config, logId, createdAt) ==
  table \cup {[id |-> 1, request |-> request, config |-> config,
               log_id |-> logId, log_file_id |-> NULL, status |-> "accepted",
               created_at |-> createdAt, error |-> NULL]}

\* UPDATE job_state SET status = ? WHERE id = 1
UpdateStatus(table, status) ==
  {IF r.id = 1 THEN [r EXCEPT !.status = status] ELSE r : r \in table}

\* UPDATE job_state SET log_file_id = ? WHERE id = 1
UpdateLogFileId(table, fileId) ==
  {IF r.id = 1 THEN [r EXCEPT !.log_file_id = Some(fileId)] ELSE r : r \in table}

\* mutant of UpdateError: the message is not stored
UpdateError_statusOnly(table, message) == UpdateStatus(table, "error")

\* UPDATE job_state SET status = 'error', error = ? WHERE id = 1
UpdateError(table, message) ==
  {IF r.id = 1 THEN [r EXCEPT !.status = "error", !.error = Some(message)] ELSE r
   : r \in table}

(***************************************************************************)
(* Fetch handlers of the Durable Object                                    *)
(***************************************************************************)
\* mutant of alreadyStarted: no idempotency check
alreadyStarted_never(table) == FALSE

\* the idempotency check of handleStart: a row with id 1 exists
alreadyStarted(table) == SelectRow(table) # {}

\* Response.json({accepted: true, job_id})
Accepted(kladosRequest) ==
  [status |-> 200, body |-> [accepted |-> TRUE, job_id |-> kladosRequest.job_id]]

\* mutant of handleStart: a duplicate start call for a job that is not over
\* arms the alarm, to wake the job up
handleStart_kicks(kladosRequest, config) ==
  IF alreadyStarted(job_state)
  THEN LET status == (CHOOSE r \in SelectRow(job_state) : TRUE).status
       IN /\ resp' = Accepted(kladosRequest)
          /\ dupStart' = status
          /\ IF status \in {"done", "error"}
             THEN UNCHANGED <<alarm, setAlarms>>
             ELSE alarm' = Some(now + 100) /\ setAlarms' = setAlarms + 1
          /\ UNCHANGED job_state
  ELSE \E id \in GeneratedIds :
         /\ job_state' = InsertRow(job_state, JSONstringify(kladosRequest),
                                   JSONstringify(config), <<"log_", id>>,
                                   toISOString(now))
         /\ alarm' = Some(now + 100)
         /\ setAlarms' = setAlarms + 1
         /\ resp' = Accepted(kladosRequest)
         /\ UNCHANGED dupStart

\* mutant of handleStart: a duplicate start call arms the alarm again
handleStart_rearms(kladosRequest, config) ==
  IF alreadyStarted(job_state)
  THEN /\ resp' = Accepted(kladosRequest)
       /\ dupStart' = (CHOOSE r \in SelectRow(job_state) : TRUE).status
       /\ alarm' = Some(now + 100)
       /\ setAlarms' = setAlarms + 1
       /\ UNCHANGED job_state
  ELSE \E id \in GeneratedIds :
         /\ job_state' = InsertRow(job_state, JSONstringify(kladosRequest),
                                   JSONstringify(config), <<"log_", id>>,
                                   toISOString(now))
         /\ alarm' = Some(now + 100)
         /\ setAlarms' = setAlarms + 1
         /\ resp' = Accepted(kladosRequest)
         /\ UNCHANGED dupStart

\* handleStart: the check, the INSERT and setAlarm run without an await of
\* external I/O between them, so no other handler runs in between
handleStart(kladosRequest, config) ==
  IF alreadyStarted(job_state)
  THEN /\ resp' = Accepted(kladosRequest)
       /\ dupStart' = (CHOOSE r \in SelectRow(job_state) : TRUE).status
       /\ UNCHANGED <<job_state, alarm, setAlarms>>
  ELSE \E id \in GeneratedIds :
         LET logId == <<"log_", id>>
             created == toISOString(now)
         IN /\ job_state' = InsertRow(job_state, JSONstringify(kladosRequest),
                                      JSONstringify(config), logId, created)
            /\ alarm' = Some(now + 100)
            /\ setAlarms' = setAlarms + 1
            /\ resp' = Accepted(kladosRequest)
            /\ UNCHANGED dupStart

\* mutant of handleStatus: a missing row is answered with status 200
handleStatus_always200 ==
  LET rows == SelectRow(job_state)
  IN /\ resp' = IF rows = {}
                THEN [status |-> 200, body |-> [status |-> "not_found"]]
                ELSE LET row == CHOOSE r \in rows : TRUE
                     IN [status |-> 200,
                         body |-> [status |-> row.status, error |-> row.error]]
     /\ UNCHANGED <<job_state, alarm, setAlarms, dupStart>>

handleStatus ==
  LET rows == SelectRow(job_state)
  IN /\ resp' = IF rows = {}
                THEN [status |-> 404, body |-> [status |-> "not_found"]]
                ELSE LET row == CHOOSE r \in rows : TRUE
                     IN [status |-> 200,
                         body |-> [status |-> row.status, error |-> row.error]]
     /\ UNCHANGED <<job_state, alarm, setAlarms, dupStart>>

\* KladosJobDO.fetch: routing by url.pathname
fetch(pathname, body) ==
  /\ IF pathname = "/start" THEN handleStart(body.request, body.config)
     ELSE IF pathname = "/status" THEN handleStatus
     ELSE /\ resp' = [status |-> 404, body |-> [text |-> "Not found"]]
          /\ UNCHANGED <<job_state, alarm, setAlarms, dupStart>>
  /\ UNCHANGED <<now, extraWakes>>
  /\ UNCHANGED alarmVars
  /\ UNCHANGED elsewhere

\* app.post('/process'): the request goes to the Durable Object named by
\* req.job_id, with the config taken from the worker environment
Process(req, env) ==
  fetch("/start",
        [request |-> req,
         config |-> [agentId |-> env.AGENT_ID, agentVersion |-> env.AGENT_VERSION,
                     authToken |-> env.ARKE_AGENT_KEY]])

(***************************************************************************)
(* Values of the processing pipeline                                       *)
(***************************************************************************)
\* Maximum file size for OCR processing (20MB)
MAX_FILE_SIZE == 20 * 1024 * 1024

\* maxRetries, the default of callMistralOCR
maxRetriesDefault == 3

\* a file of properties.content, in the order Object.entries yields it
File(key, contentType, size) ==
  [key |-> key, content_type |-> contentType, size |-> size]

\* entities GET /entities/{id} may return for the target: without a content
\* map, with a PNG only, with a PNG and a JPEG, with one JPEG above the size
\* limit
TargetEntities ==
  { [id |-> SourceId, type |-> "document", content |-> NULL],
    [id |-> SourceId, type |-> "document",
     content |-> Some(<<File("a", "image/png", Some(5000))>>)],
    [id |-> SourceId, type |-> "document",
     content |-> Some(<<File("a", "image/png", Some(5000)),
                        File("b", "image/jpeg", Some(MAX_FILE_SIZE))>>)],
    [id |-> SourceId, type |-> "document",
     content |-> Some(<<File("a", "image/jpeg", Some(MAX_FILE_SIZE + 1))>>)] }

\* a string that is a file name or reference: scheme, stem and suffix, one
\* after the other
Ref(scheme, stem, suffix) == [scheme |-> scheme, stem |-> stem, suffix |-> suffix]

\* markdown is modelled as its sequence of lexical items: runs of
\* whitespace, runs of other text, and image links ![alt](src)
Space == [kind |-> "space", alt |-> "", src |-> Ref("", "", "")]
Text(w) == [kind |-> "text", alt |-> w, src |-> Ref("", "", "")]
Image(alt, src) == [kind |-> "image", alt |-> alt, src |-> src]

\* an image of an OCR page as the Mistral API returns it
ApiImage(id, x, payload) ==
  [id |-> id, topLeftX |-> x, topLeftY |-> x, bottomRightX |-> x,
   bottomRightY |-> x, imageBase64 |-> payload]

DataUri == <<"data:image/jpeg;base64", "QUJD">>

\* responses of client.ocr.process: no pages; text with a link to an
\* extracted image; blank text with two extracted images, after one without
\* payload and one whose payload is the empty string
OcrResponses ==
  { [pages |-> NULL],
    [pages |-> Some(<<[markdown |-> Some(<<Text("Minutes"), Space,
                                           Image("fig", Ref("", "img-0", ".jpeg"))>>),
                       images |-> Some(<<ApiImage(Ref("", "img-0", ""), Some(0),
                                                  Some(DataUri))>>)]>>)],
    [pages |-> Some(<<[markdown |-> Some(<<Space>>),
                       images |-> Some(<<ApiImage(Ref("", "img-0", ""), NULL, NULL),
                                         ApiImage(Ref("", "img-2", ""), Some(3),
                                                  Some(<<>>)),
                                         ApiImage(Ref("", "img-1", ""), Some(7),
                                                  Some(DataUri)),
                                         ApiImage(Ref("", "img-3", ""), Some(9),
                                                  Some(DataUri))>>)]>>)] }

\* errors client.ocr.process may reject with; a message is modelled as its
\* sequence of words
UpstreamErrors == {Error(<<"Status", "503">>), Error(<<"Status", "401">>)}

(***************************************************************************)
(* Helpers of job.ts and of the OCR client                                 *)
(***************************************************************************)
\* String.prototype.includes on a message, word by word
includes(message, word) == \E i \in DOMAIN message : message[i] = word

\* mutant of isRetryable: every Error is retried
isRetryable_always(error) == error.instanceofError

isRetryable(error) ==
  /\ error.instanceofError
  /\ \/ includes(error.message, "rate limit")
     \/ includes(error.message, "timeout")
     \/ includes(error.message, "503")
     \/ includes(error.message, "502")
     \/ includes(error.message, "500")

\* mutant of shouldRetry: attempt is not compared with maxRetries
shouldRetry_unbounded(attempt, maxRetries, error) == isRetryable(error)

\* mutant of shouldRetry: the last retry is not made
shouldRetry_oneLess(attempt, maxRetries, error) ==
  attempt + 1 < maxRetries /\ isRetryable(error)

\* if (attempt < maxRetries && isRetryable)
shouldRetry(attempt, maxRetries, error) ==
  attempt < maxRetries /\ isRetryable(error)

\* Math.pow(2, n) and Math.min
RECURSIVE pow2(_)
pow2(n) == IF n = 0 THEN 1 ELSE 2 * pow2(n - 1)
min(a, b) == IF a < b THEN a ELSE b

\* the defaults of calculateBackoff
baseMsDefault == 1000
maxMsDefault == 30000

\* values Math.random() may return, as fractions
MathRandom == {[num |-> k, den |-> RandomSteps] : k \in 0 .. RandomSteps - 1}

\* mutant of delay: the exponential delay is not capped
delay_uncapped(attempt, baseMs, maxMs) == baseMs * pow2(attempt)

\* const delay = Math.min(baseMs * Math.pow(2, attempt), maxMs)
delay(attempt, baseMs, maxMs) == min(baseMs * pow2(attempt), maxMs)

\* calculateBackoff with Math.random() = random: delay + random * delay * 0.25,
\* as a fraction of milliseconds
calculateBackoff(attempt, random) ==
  LET d == delay(attempt, baseMsDefault, maxMsDefault)
  IN [num |-> d * (4 * random.den) + random.num * d, den |-> 4 * random.den]

\* x == null: null or undefined
nullish(x) == x = NULL \/ x = undefined

\* mutant of orNull: the value is passed on as it is
orNull_identity(x) == x

\* x ?? null
orNull(x) == IF nullish(x) THEN NULL ELSE x

\* the mapping of the first page of a response to MistralOCRResult
firstPage(response) ==
  IF nullish(response.pages) \/ Val(response.pages) = <<>>
  THEN NULL ELSE Some(Val(response.pages)[1])

\* page?.markdown || '' and (page?.images || []).map(...)
toOCRResult(response) ==
  LET page == firstPage(response)
      markdown == IF page = NULL \/ nullish(Val(page).markdown)
                  THEN <<>> ELSE Val(Val(page).markdown)
      images == IF page = NULL \/ nullish(Val(page).images)
                THEN <<>> ELSE Val(Val(page).images)
  IN [markdown |-> markdown,
      images |-> [i \in DOMAIN images |->
                    [id |-> images[i].id,
                     topLeftX |-> orNull(images[i].topLeftX),
                     topLeftY |-> orNull(images[i].topLeftY),
                     bottomRightX |-> orNull(images[i].bottomRightX),
                     bottomRightY |-> orNull(images[i].bottomRightY),
                     imageBase64 |-> orNull(images[i].imageBase64)]]]

listEntityFiles(target) ==
  IF target.content = NULL THEN <<>> ELSE Val(target.content)

\* mutant of find: the last hit is returned
find_last(files, hits) ==
  IF hits = {} THEN NULL
  ELSE Some(files[CHOOSE i \in hits : \A j \in hits : i >= j])

\* if (targetFileKey): undefined and the empty string are falsy
truthy(string) == string # NULL /\ Val(string) # ""

\* Array.prototype.find: the first element among the indices that satisfy the
\* test (hits), or NULL
find(files, hits) ==
  IF hits = {} THEN NULL
  ELSE Some(files[CHOOSE i \in hits : \A j \in hits : i <= j])

\* resolveJpegFile: the file to OCR, or the Error it throws
resolveJpegFile(target, targetFileKey) ==
  LET files == listEntityFiles(target)
      isKey == {i \in DOMAIN files : files[i].key = Val(targetFileKey)}
      isJpeg == {i \in DOMAIN files : files[i].content_type = "image/jpeg"}
  IN IF truthy(targetFileKey)
     THEN LET file == find(files, isKey)
          IN IF file = NULL
             THEN [error |-> Some(Error(<<"File not found on entity",
                                          Val(targetFileKey)>>)),
                   fileKey |-> NULL, fileMeta |-> NULL]
             ELSE IF Val(file).content_type # "image/jpeg"
             THEN [error |-> Some(Error(<<"File is not a JPEG",
                                          Val(targetFileKey)>>)),
                   fileKey |-> NULL, fileMeta |-> NULL]
             ELSE [error |-> NULL, fileKey |-> targetFileKey, fileMeta |-> file]
     ELSE LET jpegFile == find(files, isJpeg)
          IN IF jpegFile # NULL
             THEN [error |-> NULL, fileKey |-> Some(Val(jpegFile).key),
                   fileMeta |-> jpegFile]
             ELSE [error |-> Some(Error(<<"No JPEG file found on entity">>)),
                   fileKey |-> NULL, fileMeta |-> NULL]

\* mutant of tooLarge: a file of exactly MAX_FILE_SIZE is rejected too
tooLarge_inclusive(fileMeta) ==
  fileMeta.size # NULL /\ Val(fileMeta.size) # 0 /\ Val(fileMeta.size) >= MAX_FILE_SIZE

\* the size check of step 3
tooLarge(fileMeta) ==
  fileMeta.size # NULL /\ Val(fileMeta.size) # 0 /\ Val(fileMeta.size) > MAX_FILE_SIZE

\* decodeBase64DataUri: what follows the first comma, or the whole string
decodeBase64DataUri(dataUri) ==
  [bytes |-> IF Len(dataUri) >= 2 THEN dataUri[2] ELSE dataUri[1]]

\* mutant of stripImageSuffix: the suffix stays
stripImageSuffix_never(src) == src

\* src.replace(/\.(jpeg|jpg|png)$/i, '')
stripImageSuffix(src) ==
  IF src.suffix \in {".jpeg", ".jpg", ".png", ".JPEG", ".JPG", ".PNG"}
  THEN Ref(src.scheme, src.stem, "") ELSE src

\* Map.prototype.get on imageIdMap, a function from references to ids
mapGet(imageIdMap, key) ==
  IF key \in DOMAIN imageIdMap THEN Some(imageIdMap[key]) ELSE NULL

\* mutant of mapSet: nothing is recorded
mapSet_noop(imageIdMap, key, value) == imageIdMap

\* Map.prototype.set
mapSet(imageIdMap, key, value) ==
  [k \in DOMAIN imageIdMap \cup {key} |->
     IF k = key THEN value ELSE imageIdMap[k]]

\* mutant of arkeUri: the destination is the bare entity id
arkeUri_bare(entityId) == Ref("", entityId, "")

\* arke:${entityId}
arkeUri(entityId) == Ref("arke:", entityId, "")

\* replaceImageRefs: every image link whose reference is mapped gets the
\* destination arke:<entity id>
replaceImageRefs(markdown, imageIdMap) ==
  [i \in DOMAIN markdown |->
     IF markdown[i].kind # "image" THEN markdown[i]
     ELSE LET src == markdown[i].src
              baseRef == stripImageSuffix(src)
              byBase == mapGet(imageIdMap, baseRef)
              entityId == IF truthy(byBase) THEN byBase ELSE mapGet(imageIdMap, src)
          IN IF truthy(entityId)
             THEN Image(markdown[i].alt, arkeUri(Val(entityId)))
             ELSE markdown[i]]

\* mutant of nonBlank: the text is taken to be empty always
nonBlank_never(markdown) == FALSE

\* mutant of nonBlank: the text is taken to be non-empty always
nonBlank_always(markdown) == TRUE

\* markdown.trim().length > 0
nonBlank(markdown) == \E i \in DOMAIN markdown : markdown[i].kind # "space"

\* if (!img.imageBase64) continue: null and the empty string are falsy
hasPayload(imageBase64) == imageBase64 # NULL /\ Val(imageBase64) # <<>>

\* the index of the next image at or after from that carries a payload, or 0
nextWithPayload(images, from) ==
  LET hits == {i \in DOMAIN images : i >= from /\ hasPayload(images[i].imageBase64)}
  IN IF hits = {} THEN 0 ELSE CHOOSE i \in hits : \A j \in hits : i <= j

NoJob == [target |-> NULL, fileKey |-> NULL, fileMeta |-> NULL, attempt |-> 0,
          ocrResult |-> NULL, i |-> 0, entity |-> NULL,
          extractedEntities |-> <<>>, imageIdMap |-> <<>>,
          transformedMarkdown |-> NULL, tipData |-> NULL]

\* workflow entities GET /entities/{id} may return for request.rhiza.id:
\* without a flow, with a step that hands off, with a step that does not
RhizaEntities ==
  { [flow |-> NULL],
    [flow |-> Some([n \in {"ocr"} |-> [then |-> Some("next")]])],
    [flow |-> Some([n \in {"ocr"} |-> [then |-> NULL]])] }

\* results of interpretThen: with and without a handoff record
HandoffResults ==
  { [action |-> "done", handoffRecord |-> NULL],
    [action |-> "pass", handoffRecord |-> Some([type |-> "pass", target |-> "next"])] }

(***************************************************************************)
(* alarm() and processJob(): the state as a record, and each run of code   *)
(* between two awaits as a function from state to state                    *)
(***************************************************************************)
St == [job_state |-> job_state, alarm |-> alarm, now |-> now, pc |-> pc,
       al |-> al, pj |-> pj, outcome |-> outcome,
       klados_logs |-> klados_logs, source |-> source,
       children |-> children, setAlarms |-> setAlarms,
       processJobs |-> processJobs]

Becomes(s) ==
  /\ job_state' = s.job_state
  /\ alarm' = s.alarm
  /\ now' = s.now
  /\ pc' = s.pc
  /\ al' = s.al
  /\ pj' = s.pj
  /\ outcome' = s.outcome
  /\ klados_logs' = s.klados_logs
  /\ source' = s.source
  /\ children' = s.children
  /\ setAlarms' = s.setAlarms
  /\ processJobs' = s.processJobs

\* alarm() returns or rejects: its locals and those of processJob are gone
ends(s, how) ==
  [s EXCEPT !.pc = "idle", !.al = NoLocals, !.pj = NoJob,
            !.outcome = [ended |-> how, caught |-> s.al.errorMessage # NULL]]

\* the catch clause of alarm(), up to its await of failKlados
catch(s, error) ==
  LET errorMessage == errorMessageOf(error)
      s1 == [s EXCEPT !.al.error = Some(error),
                      !.al.errorMessage = Some(errorMessage)]
  IN IF s.al.logFileId # NULL
     THEN [s1 EXCEPT !.pc = "failKlados"]
     ELSE ends([s1 EXCEPT !.job_state = UpdateError(@, errorMessage)], "error")

\* mutant of finalizeLog: the row is set to done without finalizing the log
finalizeLog_skipped(s) ==
  ends([s EXCEPT !.job_state = UpdateStatus(@, "done")], "done")

\* "Finalize log": alarm() awaits updateLogStatus(client, logFileId, 'done')
finalizeLog(s) == [s EXCEPT !.pc = "updateLogStatus"]

\* mutant of afterProcessJob: the alarm is armed whatever processJob returned
afterProcessJob_rearmsAlways(s, result) ==
  LET s1 == [s EXCEPT !.al.result = Some(result),
                      !.alarm = Some(s.now + 1000), !.setAlarms = @ + 1]
  IN IF result.reschedule = Some(TRUE)
     THEN ends(s1, "rescheduled")
     ELSE IF Val(s.al.request).rhiza # NULL /\ result.outputs # NULL
     THEN [s1 EXCEPT !.pc = "GET_rhiza"]
     ELSE finalizeLog(s1)

\* mutant of afterProcessJob: on reschedule alarm() returns without setAlarm
afterProcessJob_noRearm(s, result) ==
  LET s1 == [s EXCEPT !.al.result = Some(result)]
  IN IF result.reschedule = Some(TRUE)
     THEN ends(s1, "rescheduled")
     ELSE IF Val(s.al.request).rhiza # NULL /\ result.outputs # NULL
     THEN [s1 EXCEPT !.pc = "GET_rhiza"]
     ELSE [s1 EXCEPT !.pc = "updateLogStatus"]

\* alarm() from the return of processJob to its next await
afterProcessJob(s, result) ==
  LET s1 == [s EXCEPT !.al.result = Some(result)]
  IN IF result.reschedule = Some(TRUE)
     THEN ends([s1 EXCEPT !.alarm = Some(s.now + 1000), !.setAlarms = @ + 1],
               "rescheduled")
     ELSE IF Val(s.al.request).rhiza # NULL /\ result.outputs # NULL
     THEN [s1 EXCEPT !.pc = "GET_rhiza"]
     ELSE finalizeLog(s1)

\* step 9 of processJob
returnOutputs(s) ==
  afterProcessJob(s, [outputs |-> Some(<<Val(Val(s.al.request).target_entity)>>),
                      reschedule |-> NULL])

\* steps 7 and 8 of processJob up to the await of GET /entities/{id}/tip
updateSource(s) ==
  LET transformedMarkdown ==
        replaceImageRefs(Val(s.pj.ocrResult).markdown, s.pj.imageIdMap)
      s1 == [s EXCEPT !.pj.transformedMarkdown = Some(transformedMarkdown)]
  IN IF nonBlank(transformedMarkdown)
     THEN [s1 EXCEPT !.pc = "GET_tip"]
     ELSE returnOutputs(s1)

\* the loop of step 6 from image s.pj.i on, up to the next createExtractedImage
createImages(s) ==
  LET k == nextWithPayload(Val(s.pj.ocrResult).images, s.pj.i)
  IN IF k = 0 THEN updateSource(s)
     ELSE [s EXCEPT !.pj.i = k, !.pc = "POST_entity"]

\* mutant of resolveAndCheck: the size of the file is not checked
resolveAndCheck_noSizeCheck(s, target) ==
  LET r == resolveJpegFile(target, Val(s.al.request).input.target_file_key)
      s1 == [s EXCEPT !.pj.target = Some(target)]
  IN IF r.error # NULL THEN catch(s1, Val(r.error))
     ELSE [s1 EXCEPT !.pj.fileKey = r.fileKey, !.pj.fileMeta = r.fileMeta,
                     !.pc = "GET_content"]

\* steps 2 and 3 of processJob, up to the await of the download
resolveAndCheck(s, target) ==
  LET r == resolveJpegFile(target, Val(s.al.request).input.target_file_key)
      s1 == [s EXCEPT !.pj.target = Some(target)]
  IN IF r.error # NULL THEN catch(s1, Val(r.error))
     ELSE IF tooLarge(Val(r.fileMeta))
     THEN catch(s1, Error(<<"File is too large", Val(r.fileKey)>>))
     ELSE [s1 EXCEPT !.pj.fileKey = r.fileKey, !.pj.fileMeta = r.fileMeta,
                     !.pc = "GET_content"]

\* processJob from its invocation to its first await
processJob(s) ==
  LET s1 == [s EXCEPT !.pj = NoJob, !.processJobs = @ + 1]
  IN IF Val(s.al.request).target_entity = NULL
     THEN catch(s1, Error(<<"No target_entity in request">>))
     ELSE [s1 EXCEPT !.pc = "GET_target"]

\* mutants of isTerminal: one of the two terminal statuses is not skipped
isTerminal_doneOnly(status) == status = "done"
isTerminal_errorOnly(status) == status = "error"

\* "Skip if already terminal"
isTerminal(status) == status = "done" \/ status = "error"

\* mutant of initialLogMissing: the initial log is never written
initialLogMissing_never(logFileId) == FALSE

\* mutant of initialLogMissing: the initial log is written on every alarm()
initialLogMissing_always(logFileId) == TRUE

\* "Write initial log if not done yet": if (!logFileId)
initialLogMissing(logFileId) == logFileId = NULL

\* alarm() returns at once
skips(s) == [s EXCEPT !.outcome.ended = "skipped"]

\* alarm() from its invocation to its first await
alarmHandler(s) ==
  LET rows == SelectRow(s.job_state)
  IN IF rows = {} THEN skips(s)
     ELSE LET row == CHOOSE r \in rows : TRUE
              status == row.status
          IN IF isTerminal(status) THEN skips(s)
             ELSE LET s1 == [s EXCEPT
                               !.job_state = UpdateStatus(@, "processing"),
                               !.al = [request |-> Some(JSONparse(row.request)),
                                       config |-> Some(JSONparse(row.config)),
                                       logId |-> row.log_id,
                                       logFileId |-> row.log_file_id,
                                       error |-> NULL, errorMessage |-> NULL,
                                       result |-> NULL, handoffResult |-> NULL]]
                  IN IF initialLogMissing(s1.al.logFileId)
                     THEN [s1 EXCEPT !.pc = "writeKladosLog"]
                     ELSE processJob(s1)

(***************************************************************************)
(* Actions: the return of each awaited call                                *)
(***************************************************************************)
\* what stays as it is while alarm() advances
idle == UNCHANGED <<resp, extraWakes, dupStart>> /\ UNCHANGED elsewhere

\* writeKladosLog resolves with the new file's id, or rejects
writeKladosLogReturns ==
  /\ pc = "writeKladosLog"
  /\ \/ LET fileId == Len(klados_logs) + 1
            logEntry == [id |-> al.logId, klados_id |-> Val(al.config).agentId,
                         job_id |-> Val(al.request).job_id, status |-> "running",
                         target_entity |-> Val(al.request).target_entity,
                         error |-> NULL, handoffs |-> <<>>]
            s1 == [St EXCEPT !.klados_logs = Append(@, logEntry),
                             !.al.logFileId = Some(fileId),
                             !.job_state = UpdateLogFileId(@, fileId)]
        IN Becomes(processJob(s1))
     \/ \E e \in ExternalErrors : Becomes(catch(St, e))
  /\ idle

\* step 1: GET /entities/{id} of the target
GET_targetReturns ==
  /\ pc = "GET_target"
  /\ \/ \E target \in TargetEntities : Becomes(resolveAndCheck(St, target))
     \/ Becomes(catch(St, Error(<<"Failed to fetch target",
                                  Val(Val(al.request).target_entity)>>)))
  /\ idle

\* step 4: GET /entities/{id}/content; then callMistralOCR starts attempt 0
GET_contentReturns ==
  /\ pc = "GET_content"
  /\ \/ Becomes([St EXCEPT !.pj.attempt = 0, !.pc = "ocr_process"])
     \/ Becomes(catch(St, Error(<<"Failed to download content">>)))
  /\ idle

\* callMistralOCR: client.ocr.process resolves or rejects
ocr_processReturns ==
  /\ pc = "ocr_process"
  /\ \/ \E response \in OcrResponses :
          Becomes(createImages([St EXCEPT !.pj.ocrResult = Some(toOCRResult(response)),
                                          !.pj.attempt = 0, !.pj.i = 1]))
     \/ \E error \in UpstreamErrors :
          IF shouldRetry(pj.attempt, maxRetriesDefault, error)
          THEN Becomes([St EXCEPT !.pc = "sleep"])
          ELSE Becomes(catch(St, error))
  /\ idle

\* callMistralOCR: the backoff sleep is over, the loop continues
sleepReturns ==
  /\ pc = "sleep"
  /\ Becomes([St EXCEPT !.pj.attempt = @ + 1, !.pc = "ocr_process"])
  /\ idle

\* createExtractedImage: POST /entities
POST_entityReturns ==
  /\ pc = "POST_entity"
  /\ \/ /\ Len(children) < Len(ChildIds)
        /\ LET img == Val(pj.ocrResult).images[pj.i]
               entity ==
                 [id |-> ChildId(Len(children) + 1), type |-> "file",
                  collection |-> Val(al.request).target_collection,
                  properties |->
                    [extraction_source |-> "ocr",
                     source_file_key |-> Val(pj.fileKey),
                     source_bbox |-> [x1 |-> img.topLeftX, y1 |-> img.topLeftY,
                                      x2 |-> img.bottomRightX,
                                      y2 |-> img.bottomRightY],
                     source_image_ref |-> img.id,
                     extracted_at |-> toISOString(now)],
                  relationships |->
                    <<[predicate |-> "extracted_from",
                       peer |-> Val(Val(al.request).target_entity),
                       peer_type |-> Val(pj.target).type]>>,
                  content |-> NULL]
           IN Becomes([St EXCEPT !.children = Append(@, entity),
                                 !.pj.entity = Some(entity.id),
                                 !.pc = "POST_content"])
     \/ Becomes(catch(St, Error(<<"Failed to create extracted image entity">>)))
  /\ idle

\* createExtractedImage: the upload of the image content; then the loop of
\* step 6 records the child and goes on
POST_contentReturns ==
  /\ pc = "POST_content"
  /\ \/ LET img == Val(pj.ocrResult).images[pj.i]
            imageData == decodeBase64DataUri(Val(img.imageBase64))
            childEntity == Val(pj.entity)
            n == CHOOSE k \in DOMAIN children : children[k].id = childEntity
            s1 == [St EXCEPT !.children[n].content = Some(imageData),
                             !.pj.extractedEntities = Append(@, childEntity),
                             !.pj.imageIdMap = mapSet(@, img.id, childEntity),
                             !.pj.entity = NULL, !.pj.i = @ + 1]
        IN Becomes(createImages(s1))
     \/ Becomes(catch(St, Error(<<"Failed to upload extracted image content">>)))
  /\ idle

\* step 8: GET /entities/{id}/tip
GET_tipReturns ==
  /\ pc = "GET_tip"
  /\ \/ Becomes([St EXCEPT !.pj.tipData = Some([cid |-> source.tip]),
                           !.pc = "PUT_entity"])
     \/ Becomes(catch(St, Error(<<"Failed to get entity tip">>)))
  /\ idle

\* mutant of expect_tip: the update is sent without expect_tip
expect_tip_omitted(tipData) == NULL

\* expect_tip: tipData.cid
expect_tip(tipData) == Some(tipData.cid)

\* mutant of relationships_add: no relationship is sent
relationships_add_none(extractedEntities) == <<>>

\* relationships_add: extractedEntities.map(...)
relationships_add(extractedEntities) ==
  [k \in DOMAIN extractedEntities |->
     [predicate |-> "has_extracted", peer |-> extractedEntities[k],
      peer_type |-> "file"]]

\* step 8: PUT /entities/{id} with expect_tip; the store applies the update
\* only if the expect_tip of the request, when there is one, is the entity's
\* current tip
PUT_entityReturns ==
  /\ pc = "PUT_entity"
  /\ \/ LET expect == expect_tip(Val(pj.tipData))
        IN IF expect = NULL \/ Val(expect) = source.tip
           THEN LET properties ==
                      [text |-> Val(pj.transformedMarkdown), text_source |-> "ocr",
                       text_extracted_at |-> toISOString(now),
                       ocr_model |-> "mistral-ocr-latest",
                       ocr_images_extracted |-> Len(pj.extractedEntities),
                       ocr_source_file_key |-> Val(pj.fileKey)]
                    s1 == [St EXCEPT
                             !.source.properties = Some(properties),
                             !.source.relationships_add =
                                @ \o relationships_add(pj.extractedEntities),
                             !.source.tip = @ + 1]
                IN Becomes(returnOutputs(s1))
           ELSE Becomes(catch(St, Error(<<"Failed to update entity with OCR text",
                                          "Conflict">>)))
     \/ Becomes(catch(St, Error(<<"Failed to update entity with OCR text",
                                  "fetch failed">>)))
  /\ idle

\* the workflow handoff: GET /entities/{id} of request.rhiza.id
GET_rhizaReturns ==
  /\ pc = "GET_rhiza"
  /\ \/ \E rhizaEntity \in RhizaEntities :
          LET flow == rhizaEntity.flow
              path == Val(Val(al.request).rhiza).path
              currentStepName == IF path = <<>> THEN NULL ELSE Some(path[Len(path)])
              myStep == IF currentStepName # NULL /\ flow # NULL
                           /\ Val(currentStepName) \in DOMAIN Val(flow)
                        THEN Some(Val(flow)[Val(currentStepName)]) ELSE NULL
          IN IF myStep # NULL /\ Val(myStep).then # NULL
             THEN Becomes([St EXCEPT !.pc = "interpretThen"])
             ELSE Becomes(finalizeLog(St))
     \/ Becomes(catch(St, Error(<<"Failed to fetch rhiza",
                                  Val(Val(al.request).rhiza).id>>)))
  /\ idle

interpretThenReturns ==
  /\ pc = "interpretThen"
  /\ \/ \E handoffResult \in HandoffResults :
          IF handoffResult.handoffRecord # NULL
          THEN Becomes([St EXCEPT !.al.handoffResult = Some(handoffResult),
                                  !.pc = "updateLogWithHandoffs"])
          ELSE Becomes(finalizeLog([St EXCEPT
                                      !.al.handoffResult = Some(handoffResult)]))
     \/ \E e \in ExternalErrors : Becomes(catch(St, e))
  /\ idle

updateLogWithHandoffsReturns ==
  /\ pc = "updateLogWithHandoffs"
  /\ \/ Becomes(finalizeLog(
          [St EXCEPT !.klados_logs[Val(al.logFileId)].handoffs =
                        Append(@, Val(Val(al.handoffResult).handoffRecord))]))
     \/ \E e \in ExternalErrors : Becomes(catch(St, e))
  /\ idle

\* updateLogStatus(client, logFileId, 'done') returns; then the row is set done
updateLogStatusReturns ==
  /\ pc = "updateLogStatus"
  /\ \/ Becomes(ends([St EXCEPT !.klados_logs[Val(al.logFileId)].status = "done",
                                !.job_state = UpdateStatus(@, "done")],
                      "done"))
     \/ \E e \in ExternalErrors : Becomes(catch(St, e))
  /\ idle

\* the catch clause after its await of failKlados: the row is set to error
\* once failKlados has resolved; if it rejects, alarm() rejects with it
failKladosReturns ==
  /\ pc = "failKlados"
  /\ \/ Becomes(ends([St EXCEPT
                          !.klados_logs[Val(al.logFileId)].status = "error",
                          !.klados_logs[Val(al.logFileId)].error = al.errorMessage,
                          !.job_state = UpdateError(@, Val(al.errorMessage))],
                      "error"))
     \/ Becomes(ends(St, "rejected"))
  /\ idle

(***************************************************************************)
(* Actions: requests and alarm deliveries                                  *)
(***************************************************************************)
\* POST /process
Start == \E req \in Requests, env \in Envs : Process(req, env)

\* GET /status on the Durable Object
Status == fetch("/status", NULL)

\* any other path on the Durable Object
OtherPath == fetch("/other", NULL)

\* the pending alarm fires: the runtime clears it and invokes alarm()
AlarmFires ==
  /\ pc = "idle"
  /\ alarm # NULL
  /\ Becomes(alarmHandler([St EXCEPT !.alarm = NULL,
                                     !.now = IF now < Val(alarm) THEN Val(alarm) ELSE now]))
  /\ UNCHANGED <<resp, extraWakes, dupStart>>
  /\ UNCHANGED elsewhere

\* alarm() is invoked although no alarm is pending: an alarm delivered again
\* (delivery is at least once; a rejected alarm() is retried)
AlarmRedelivered ==
  /\ pc = "idle"
  /\ alarm = NULL
  /\ extraWakes < MaxExtraWakes
  /\ extraWakes' = extraWakes + 1
  /\ Becomes(alarmHandler(St))
  /\ UNCHANGED <<resp, dupStart>>
  /\ UNCHANGED elsewhere

\* the Durable Object before any request
Unstarted ==
  /\ job_state = {}
  /\ alarm = NULL
  /\ now = 0
  /\ resp = NoResp
  /\ pc = "idle"
  /\ al = NoLocals
  /\ pj = NoJob
  /\ outcome = NoOutcome
  /\ klados_logs = <<>>
  /\ source = NoSource
  /\ children = <<>>
  /\ extraWakes = 0
  /\ dupStart = "none"
  /\ setAlarms = 0
  /\ processJobs = 0

Init ==
  /\ Unstarted
  /\ other = NoOther
  /\ invocation = NoInvocation

Next ==
  \/ Start
  \/ Status
  \/ OtherPath
  \/ AlarmFires
  \/ AlarmRedelivered
  \/ writeKladosLogReturns
  \/ GET_targetReturns
  \/ GET_contentReturns
  \/ ocr_processReturns
  \/ sleepReturns
  \/ POST_entityReturns
  \/ POST_contentReturns
  \/ GET_tipReturns
  \/ PUT_entityReturns
  \/ GET_rhizaReturns
  \/ interpretThenReturns
  \/ updateLogWithHandoffsReturns
  \/ updateLogStatusReturns
  \/ failKladosReturns

Spec == Init /\ [][Next]_vars

\* fairness: the armed alarm fires, and every awaited call returns
AlarmProgress ==
  \/ AlarmFires
  \/ writeKladosLogReturns
  \/ GET_targetReturns
  \/ GET_contentReturns
  \/ ocr_processReturns
  \/ sleepReturns
  \/ POST_entityReturns
  \/ POST_contentReturns
  \/ GET_tipReturns
  \/ PUT_entityReturns
  \/ GET_rhizaReturns
  \/ interpretThenReturns
  \/ updateLogWithHandoffsReturns
  \/ updateLogStatusReturns
  \/ failKladosReturns

LiveSpec == Init /\ [][Next]_vars /\ WF_vars(AlarmProgress)

(***************************************************************************)
(* alarm() with any pipeline behind processJob: whatever a ProcessResult   *)
(* may be                                                                  *)
(***************************************************************************)
\* values of type ProcessResult: outputs, a request to reschedule, both set
ProcessResults ==
  { [outputs |-> Some(<<SourceId>>), reschedule |-> NULL],
    [outputs |-> NULL, reschedule |-> Some(TRUE)],
    [outputs |-> Some(<<SourceId>>), reschedule |-> Some(FALSE)] }

\* await processJob(...) in alarm(): the pipeline resolves with a
\* ProcessResult or rejects; pc = "GET_target" is the pipeline in progress
processJobReturns ==
  /\ pc = "GET_target"
  /\ \/ \E result \in ProcessResults :
          /\ result.reschedule = Some(TRUE) => processJobs < MaxPipelineRuns
          /\ Becomes(afterProcessJob(St, result))
     \/ \E e \in ExternalErrors : Becomes(catch(St, e))
  /\ idle

AnyPipeline_Next ==
  \/ Start
  \/ AlarmFires
  \/ AlarmRedelivered
  \/ writeKladosLogReturns
  \/ processJobReturns
  \/ GET_rhizaReturns
  \/ interpretThenReturns
  \/ updateLogWithHandoffsReturns
  \/ updateLogStatusReturns
  \/ failKladosReturns

AnyPipeline_Spec == Init /\ [][AnyPipeline_Next]_vars

(***************************************************************************)
(* Two jobs on one source entity: the modelled job, and step 8 of the      *)
(* pipeline of another job that targets the same entity                    *)
(***************************************************************************)
\* the other job's GET /entities/{id}/tip
Other_GET_tipReturns ==
  /\ other.tipData = NULL
  /\ other' = [other EXCEPT !.tipData = Some([cid |-> source.tip])]
  /\ UNCHANGED jobVars
  /\ UNCHANGED invocation

\* the other job's PUT /entities/{id} with expect_tip: applied only if
\* expect_tip is the entity's current tip; landed records where the modelled
\* job's alarm() stood, in which run of processJob, when the update was applied
Other_PUT_entityReturns ==
  /\ other.tipData # NULL
  /\ other.updated = NULL
  /\ IF Val(other.tipData).cid = source.tip
     THEN /\ source' = [source EXCEPT
                          !.properties =
                             Some([text |-> <<Text("Other")>>, text_source |-> "ocr",
                                   text_extracted_at |-> toISOString(now),
                                   ocr_model |-> "mistral-ocr-latest",
                                   ocr_images_extracted |-> 0,
                                   ocr_source_file_key |-> "b"]),
                          !.tip = @ + 1]
          /\ other' = [other EXCEPT !.updated = Some(TRUE),
                                    !.landed = Some([pc |-> pc, run |-> processJobs])]
     ELSE /\ other' = [other EXCEPT !.updated = Some(FALSE)]
          /\ UNCHANGED source
  /\ UNCHANGED <<job_state, alarm, now, resp, pc, al, pj, outcome, klados_logs,
                 children, extraWakes, dupStart, setAlarms, processJobs>>
  /\ UNCHANGED invocation

\* POST /process for a job outside a workflow, without an explicit file key
TwoJobs_Start ==
  \E req \in Requests, env \in Envs :
    /\ req.target_entity # NULL
    /\ req.rhiza = NULL
    /\ req.input.target_file_key = NULL
    /\ env.AGENT_VERSION = "1.0.0"
    /\ Process(req, env)

TwoJobs_Next ==
  \/ TwoJobs_Start
  \/ AlarmFires
  \/ AlarmRedelivered
  \/ writeKladosLogReturns
  \/ GET_targetReturns
  \/ GET_contentReturns
  \/ ocr_processReturns
  \/ sleepReturns
  \/ POST_entityReturns
  \/ POST_contentReturns
  \/ GET_tipReturns
  \/ PUT_entityReturns
  \/ updateLogStatusReturns
  \/ failKladosReturns
  \/ Other_GET_tipReturns
  \/ Other_PUT_entityReturns

TwoJobs_Spec == Init /\ [][TwoJobs_Next]_vars

(***************************************************************************)
(* The Durable Object restarted while alarm() runs                         *)
(***************************************************************************)
\* the process is lost in the middle of alarm(): the locals of alarm() and of
\* processJob are gone, what is in SQLite and what was written to the
\* external services stays. (Between two invocations nothing is held in
\* memory, and in handleStart the INSERT and setAlarm are issued without an
\* await between them, so a restart there leaves the state before or after
\* both.) A restart is followed by a new delivery of the alarm.
Restart ==
  /\ pc # "idle"
  /\ extraWakes < MaxExtraWakes
  /\ Becomes(ends(St, "aborted"))
  /\ idle

\* the alarm whose alarm() was aborted is delivered again
Resume == outcome.ended = "aborted" /\ AlarmRedelivered

\* a job outside a workflow, restarts included
Restart_Next ==
  \/ TwoJobs_Start
  \/ AlarmFires
  \/ AlarmRedelivered
  \/ Restart
  \/ writeKladosLogReturns
  \/ GET_targetReturns
  \/ GET_contentReturns
  \/ ocr_processReturns
  \/ sleepReturns
  \/ POST_entityReturns
  \/ POST_contentReturns
  \/ GET_tipReturns
  \/ PUT_entityReturns
  \/ updateLogStatusReturns
  \/ failKladosReturns

\* fairness: the armed alarm fires, every awaited call returns, and the
\* alarm of an aborted alarm() is delivered again
Restart_LiveSpec ==
  Init /\ [][Restart_Next]_vars /\ WF_vars(AlarmProgress) /\ WF_vars(Resume)

(***************************************************************************)
(* The pipeline on a target whose one JPEG file declares any size          *)
(***************************************************************************)
\* declared sizes of a file: none, zero, small, and around MAX_FILE_SIZE
DeclaredSizes ==
  {NULL, Some(0), Some(1), Some(MAX_FILE_SIZE - 1), Some(MAX_FILE_SIZE),
   Some(MAX_FILE_SIZE + 1), Some(2 * MAX_FILE_SIZE)}

\* step 1: GET /entities/{id} of the target returns an entity with one JPEG
SizeCheck_GET_targetReturns ==
  /\ pc = "GET_target"
  /\ \/ \E size \in DeclaredSizes :
          Becomes(resolveAndCheck(St,
                    [id |-> SourceId, type |-> "document",
                     content |-> Some(<<File("a", "image/jpeg", size)>>)]))
     \/ Becomes(catch(St, Error(<<"Failed to fetch target",
                                  Val(Val(al.request).target_entity)>>)))
  /\ idle

SizeCheck_Next ==
  \/ TwoJobs_Start
  \/ AlarmFires
  \/ writeKladosLogReturns
  \/ SizeCheck_GET_targetReturns
  \/ GET_contentReturns
  \/ ocr_processReturns
  \/ sleepReturns
  \/ POST_entityReturns
  \/ POST_contentReturns
  \/ GET_tipReturns
  \/ PUT_entityReturns
  \/ updateLogStatusReturns
  \/ failKladosReturns

SizeCheck_Spec == Init /\ [][SizeCheck_Next]_vars

(***************************************************************************)
(* resolveJpegFile invoked on its own                                      *)
(***************************************************************************)
\* keys and content types of the files of a content map
FileKeys == {"", "a", "b"}
ContentTypes == {"image/jpeg", "image/png"}

\* content maps of up to MaxFiles files, as Object.entries lists them: no
\* key twice
ContentMaps ==
  UNION { { files \in [1 .. n -> [key : FileKeys, content_type : ContentTypes,
                                   size : {Some(5000)}]] :
              \A i, j \in 1 .. n : i # j => files[i].key # files[j].key }
          : n \in 0 .. MaxFiles }

\* arguments of resolveJpegFile: an entity without or with a content map,
\* and no key, an empty key, the key of a file or of none
TargetFileKeys == {NULL, Some(""), Some("a"), Some("b"), Some("z")}

resolveJpegFile_Init ==
  /\ Unstarted
  /\ other = NoOther
  /\ \E content \in {NULL} \cup {Some(files) : files \in ContentMaps},
        targetFileKey \in TargetFileKeys :
       invocation = [of |-> "resolveJpegFile", at |-> "start",
                     target |-> [id |-> SourceId, type |-> "document",
                                 content |-> content],
                     targetFileKey |-> targetFileKey, result |-> NULL]

\* resolveJpegFile returns or throws
resolveJpegFileReturns ==
  /\ invocation.of = "resolveJpegFile"
  /\ invocation.at = "start"
  /\ invocation' = [invocation EXCEPT
                      !.at = "done",
                      !.result = Some(resolveJpegFile(invocation.target,
                                                      invocation.targetFileKey))]
  /\ UNCHANGED jobVars
  /\ UNCHANGED other

resolveJpegFile_Next == resolveJpegFileReturns

resolveJpegFile_Spec == resolveJpegFile_Init /\ [][resolveJpegFile_Next]_vars

(***************************************************************************)
(* replaceImageRefs invoked on its own                                     *)
(***************************************************************************)
\* link targets: with a suffix that is stripped (in either case), with none,
\* with one that is not stripped, and a reference that no map knows
Srcs ==
  { Ref("", "img-0", ".jpeg"), Ref("", "img-0", ""), Ref("", "img-0", ".PNG"),
    Ref("", "img-0", ".gif"), Ref("", "img-9", ".jpeg") }

\* items of markdown: text, whitespace, and image links with and without alt
Items == {Text("Minutes"), Space} \cup {Image(alt, src) : alt \in {"fig", ""}, src \in Srcs}

Markdowns == UNION {[1 .. n -> Items] : n \in 0 .. MaxItems}

\* maps from OCR-local references to the ids of created entities (ids are
\* those the entity store returned, never empty): any of the stripped form,
\* a raw form and an unstripped form mapped or not
ImageIdMaps ==
  UNION { [keys -> {"E1", "E2"}]
          : keys \in SUBSET {Ref("", "img-0", ""), Ref("", "img-0", ".jpeg"),
                             Ref("", "img-0", ".gif")} }

replaceImageRefs_Init ==
  /\ Unstarted
  /\ other = NoOther
  /\ \E markdown \in Markdowns, imageIdMap \in ImageIdMaps :
       invocation = [of |-> "replaceImageRefs", at |-> "start",
                     markdown |-> markdown, imageIdMap |-> imageIdMap,
                     result |-> NULL]

replaceImageRefsReturns ==
  /\ invocation.of = "replaceImageRefs"
  /\ invocation.at = "start"
  /\ invocation' = [invocation EXCEPT
                      !.at = "done",
                      !.result = Some(replaceImageRefs(invocation.markdown,
                                                       invocation.imageIdMap))]
  /\ UNCHANGED jobVars
  /\ UNCHANGED other

replaceImageRefs_Next == replaceImageRefsReturns

replaceImageRefs_Spec == replaceImageRefs_Init /\ [][replaceImageRefs_Next]_vars

(***************************************************************************)
(* The mapping of a successful upstream response, on its own               *)
(***************************************************************************)
\* images of a page: each optional field present or absent, a coordinate
\* present with value 0 or not
ApiImages ==
  [id : {Ref("", "img-0", ""), Ref("", "img-1", "")},
   topLeftX : {undefined, Some(0), Some(7)}, topLeftY : {Some(1)},
   bottomRightX : {undefined}, bottomRightY : {Some(0)},
   imageBase64 : {undefined, Some(DataUri)}]

\* first pages: markdown absent, empty or not; the image list absent or of
\* up to MaxItems images
ApiPages ==
  [markdown : {undefined, Some(<<>>), Some(<<Text("Minutes")>>)},
   images : {undefined} \cup
            {Some(images) : images \in UNION {[1 .. n -> ApiImages] : n \in 0 .. MaxItems}}]

\* a page that follows the first
SecondPage ==
  [markdown |-> Some(<<Text("Second")>>),
   images |-> Some(<<ApiImage(Ref("", "img-9", ""), Some(5), Some(DataUri))>>)]

\* responses: pages absent, none, one page, two pages
ApiResponses ==
  {[pages |-> undefined], [pages |-> Some(<<>>)]}
  \cup {[pages |-> Some(<<page>>)] : page \in ApiPages}
  \cup {[pages |-> Some(<<page, SecondPage>>)] : page \in ApiPages}

toOCRResult_Init ==
  /\ Unstarted
  /\ other = NoOther
  /\ \E response \in ApiResponses :
       invocation = [of |-> "toOCRResult", at |-> "start",
                     response |-> response, result |-> NULL]

\* client.ocr.process has resolved: callMistralOCR returns the mapped page
toOCRResultReturns ==
  /\ invocation.of = "toOCRResult"
  /\ invocation.at = "start"
  /\ invocation' = [invocation EXCEPT
                      !.at = "done",
                      !.result = Some(toOCRResult(invocation.response))]
  /\ UNCHANGED jobVars
  /\ UNCHANGED other

toOCRResult_Next == toOCRResultReturns

toOCRResult_Spec == toOCRResult_Init /\ [][toOCRResult_Next]_vars

(***************************************************************************)
(* replaceImageRefs applied to its own result                              *)
(***************************************************************************)
\* link targets: references with and without suffix, a reference that is
\* the id of an entity, an arke: URI, and a reference no map knows
RewrittenSrcs ==
  { Ref("", "img-0", ".jpeg"), Ref("", "img-0", ""), Ref("", "E1", ""),
    Ref("arke:", "E1", ""), Ref("", "img-9", ".jpeg") }

RewrittenMarkdowns ==
  UNION {[1 .. n -> {Text("Minutes")} \cup {Image("fig", src) : src \in RewrittenSrcs}]
         : n \in 0 .. MaxItems}

\* maps whose keys are references, among them one that is an entity id and
\* one that is an arke: URI
RewrittenImageIdMaps ==
  UNION { [keys -> {"E1", "E2"}]
          : keys \in SUBSET {Ref("", "img-0", ""), Ref("", "img-0", ".jpeg"),
                             Ref("", "E1", ""), Ref("arke:", "E1", "")} }

replaceImageRefsTwice_Init ==
  /\ Unstarted
  /\ other = NoOther
  /\ \E markdown \in RewrittenMarkdowns, imageIdMap \in RewrittenImageIdMaps :
       invocation = [of |-> "replaceImageRefsTwice", at |-> "start",
                     markdown |-> markdown, imageIdMap |-> imageIdMap,
                     once |-> NULL, twice |-> NULL]

\* replaceImageRefs(markdown, imageIdMap) returns
replaceImageRefsTwice_onceReturns ==
  /\ invocation.of = "replaceImageRefsTwice"
  /\ invocation.at = "start"
  /\ invocation' = [invocation EXCEPT
                      !.at = "once",
                      !.once = Some(replaceImageRefs(invocation.markdown,
                                                     invocation.imageIdMap))]
  /\ UNCHANGED jobVars
  /\ UNCHANGED other

\* replaceImageRefs returns, called on its own result with the same map
replaceImageRefsTwice_twiceReturns ==
  /\ invocation.of = "replaceImageRefsTwice"
  /\ invocation.at = "once"
  /\ invocation' = [invocation EXCEPT
                      !.at = "twice",
                      !.twice = Some(replaceImageRefs(Val(invocation.once),
                                                      invocation.imageIdMap))]
  /\ UNCHANGED jobVars
  /\ UNCHANGED other

replaceImageRefsTwice_Next ==
  \/ replaceImageRefsTwice_onceReturns
  \/ replaceImageRefsTwice_twiceReturns

replaceImageRefsTwice_Spec ==
  replaceImageRefsTwice_Init /\ [][replaceImageRefsTwice_Next]_vars

(***************************************************************************)
(* callMistralOCR invoked on its own, with any maxRetries                  *)
(***************************************************************************)
\* what client.ocr.process may reject with: Errors with and without one of
\* the retryable substrings, and a thrown value that is no Error
Thrown ==
  UpstreamErrors \cup
  { Error(<<"rate limit", "exceeded">>), Error(<<"Request", "timeout">>),
    Error(<<"Status", "502">>), Error(<<"Status", "500">>),
    Error(<<"Invalid", "image">>),
    [instanceofError |-> FALSE, value |-> <<"503">>] }

\* the head of the for loop: attempt <= maxRetries, else the throw after it
loopHead(inv) ==
  IF inv.attempt <= inv.maxRetries
  THEN [inv EXCEPT !.at = "ocr_process"]
  ELSE [inv EXCEPT !.at = "threw",
                   !.thrown = Some(Error(<<"Mistral OCR failed after all retries">>))]

\* callMistralOCR(imageBase64, mimeType, apiKey, maxRetries) up to its first
\* await; calls counts the upstream calls that returned, retryableFailures
\* those of them that failed with a retryable error, sleeps the sleeps that
\* are over
callMistralOCR(maxRetries) ==
  loopHead([of |-> "callMistralOCR", maxRetries |-> maxRetries, attempt |-> 0,
            at |-> "start", calls |-> 0, retryableFailures |-> 0, sleeps |-> 0,
            lastError |-> NULL, slept |-> NULL, result |-> NULL,
            thrown |-> NULL])

\* client.ocr.process resolves, or rejects and the catch clause decides
callMistralOCR_processReturns ==
  /\ invocation.of = "callMistralOCR"
  /\ invocation.at = "ocr_process"
  /\ \/ \E response \in OcrResponses :
          invocation' = [invocation EXCEPT !.calls = @ + 1, !.lastError = NULL,
                                           !.result = Some(toOCRResult(response)),
                                           !.at = "returned"]
     \/ \E error \in Thrown, random \in MathRandom :
          LET inv == [invocation EXCEPT
                        !.calls = @ + 1, !.lastError = Some(error),
                        !.retryableFailures = IF isRetryable(error) THEN @ + 1 ELSE @]
          IN invocation' =
               IF shouldRetry(invocation.attempt, invocation.maxRetries, error)
               THEN [inv EXCEPT !.at = "sleep",
                                !.slept = Some([attempt |-> invocation.attempt,
                                                delayMs |-> calculateBackoff(
                                                  invocation.attempt, random)])]
               ELSE [inv EXCEPT !.at = "threw", !.thrown = Some(error)]
  /\ UNCHANGED jobVars
  /\ UNCHANGED other

\* await sleep(delayMs) is over: continue
callMistralOCR_sleepReturns ==
  /\ invocation.of = "callMistralOCR"
  /\ invocation.at = "sleep"
  /\ invocation' = loopHead([invocation EXCEPT !.attempt = @ + 1,
                                               !.sleeps = @ + 1])
  /\ UNCHANGED jobVars
  /\ UNCHANGED other

callMistralOCR_Init ==
  /\ Unstarted
  /\ other = NoOther
  /\ invocation \in {callMistralOCR(maxRetries) : maxRetries \in 0 .. MaxRetriesArg}

callMistralOCR_Next ==
  \/ callMistralOCR_processReturns
  \/ callMistralOCR_sleepReturns

callMistralOCR_Spec == callMistralOCR_Init /\ [][callMistralOCR_Next]_vars

\* every await of callMistralOCR settles: the upstream call resolves or
\* rejects, and the timer of sleep() fires
callMistralOCR_LiveSpec ==
  callMistralOCR_Spec /\ WF_vars(callMistralOCR_Next)

(***************************************************************************)
(* Properties                                                              *)
(***************************************************************************)
\* the JobRecord, and its status ("none" while there is no record)
hasRecord == job_state # {}
record == CHOOSE r \in job_state : TRUE
jobStatus == IF hasRecord THEN record.status ELSE "none"
logFinalizedAs(status) ==
  /\ record.log_file_id # NULL
  /\ klados_logs[Val(record.log_file_id)].status = status

\* C1, as stated: for any number of start calls, in any interleaving with
\* wake-ups, exactly one JobRecord exists once the job was started, and a job
\* whose life is over (done or error) has exactly one progress-log entry.
C1_ExactlyOneRecordAndOneLog ==
  /\ hasRecord => Cardinality(job_state) = 1
  /\ jobStatus \in {"done", "error"} => Len(klados_logs) = 1

\* C1, amended: exactly one JobRecord exists once the job was started, and at
\* most one progress-log entry is ever written: exactly one from the moment
\* the initial log write succeeded (so a job that ends done has one), and none
\* for a job that ended in error because that write failed.
C1_OneRecordAtMostOneLog ==
  /\ Cardinality(job_state) <= 1
  /\ dupStart # "none" => Cardinality(job_state) = 1
  /\ Len(klados_logs) <= 1
  /\ hasRecord => (Len(klados_logs) = 1 <=> record.log_file_id # NULL)
  /\ ~hasRecord => Len(klados_logs) = 0
  /\ jobStatus = "done" => Len(klados_logs) = 1

\* a duplicate start call was made and the job's life is over, with its log
C1_Witness ==
  /\ dupStart # "none"
  /\ extraWakes > 0
  /\ jobStatus = "done"
  /\ Len(klados_logs) = 1

\* C2: a start call made when a JobRecord exists answers {accepted: true,
\* job_id} and changes neither the record nor the pending alarm, whatever the
\* status and whatever request and config the call carries.
C2_DuplicateStartChangesNothing ==
  [][\A req \in Requests, env \in Envs :
       (hasRecord /\ Process(req, env)) =>
         /\ job_state' = job_state
         /\ alarm' = alarm
         /\ setAlarms' = setAlarms
         /\ resp' = [status |-> 200,
                     body |-> [accepted |-> TRUE, job_id |-> req.job_id]]]_vars

\* a duplicate start call found the job in error, and the record is intact
C2_Witness ==
  /\ dupStart = "error"
  /\ jobStatus = "error"
  /\ resp.status = 200

\* C3: the status changes only along none -> accepted, accepted ->
\* processing, processing -> done and processing -> error.
C3_StatusTransitions ==
  [][\/ jobStatus' = jobStatus
     \/ <<jobStatus, jobStatus'>> \in
          {<<"none", "accepted">>, <<"accepted", "processing">>,
           <<"processing", "done">>, <<"processing", "error">>}]_vars

\* an alarm() was delivered again while processing (processing ->
\* processing), after a duplicate start, and the job then ended
C3_Witness ==
  /\ jobStatus = "error"
  /\ processJobs = 2
  /\ dupStart = "processing"

\* C4: alarm() invoked with status done or error, or without a JobRecord,
\* changes nothing: not the record, not the log, not the store, no pipeline
\* run, no handoff, no alarm armed.
C4_WakeOnTerminalIsNoOp ==
  [][(/\ pc = "idle"
      /\ AlarmFires \/ AlarmRedelivered
      /\ jobStatus \in {"none", "done", "error"}) =>
        /\ UNCHANGED <<job_state, pc, al, pj, klados_logs, source, children,
                       processJobs, setAlarms>>
        /\ alarm' = NULL \/ alarm' = alarm]_vars

\* the latest alarm() found the job in error and returned at once
C4_Witness ==
  /\ outcome.ended = "skipped"
  /\ jobStatus = "error"

\* C5, as stated: an alarm() in which a step failed ends with status error
\* and the error message stored, with the log finalized as failed if a log
\* file exists, and with no alarm armed.
C5_FailureEndsInError ==
  (pc = "idle" /\ outcome.caught) =>
     /\ jobStatus = "error"
     /\ record.error # NULL
     /\ record.log_file_id # NULL =>
          /\ logFinalizedAs("error")
          /\ klados_logs[Val(record.log_file_id)].error = record.error
     /\ alarm = NULL

\* C6, as stated: once a start call was accepted the job eventually reaches
\* done or error, given that the alarm fires and every awaited call returns.
C6_EventuallyTerminal ==
  hasRecord ~> (jobStatus \in {"done", "error"})

\* C7: error is set if and only if status = error.
C7_ErrorIffStatusError ==
  \A r \in job_state : (r.error # NULL) <=> (r.status = "error")

\* a job in error, its message stored
C7_Witness ==
  /\ jobStatus = "error"
  /\ record.error = Some(<<"No JPEG file found on entity">>)

\* C8: once set, log_file_id never changes, and log_id never changes.
C8_LogHandleWriteOnce ==
  [][\A r \in job_state : \A t \in job_state' :
       /\ r.log_file_id # NULL => t.log_file_id = r.log_file_id
       /\ t.log_id = r.log_id]_vars

\* processJob runs a second time, in an alarm() delivered again, on a record
\* whose log_file_id was set by the first
C8_Witness ==
  /\ processJobs = 2
  /\ pc = "GET_target"
  /\ record.log_file_id = Some(1)
  /\ Len(klados_logs) = 1

\* C9: a start call without a JobRecord inserts a record in accepted with
\* log_file_id and error unset, arms one alarm and answers {accepted: true,
\* job_id}; it writes no log, touches no entity and runs no pipeline; any
\* such work is done by a step of alarm().
C9_StartOnlyAcceptsAndArms ==
  [][/\ \A req \in Requests, env \in Envs :
          (~hasRecord /\ Process(req, env)) =>
            /\ \E r \in job_state' :
                 /\ job_state' = {r}
                 /\ r.status = "accepted"
                 /\ r.log_file_id = NULL
                 /\ r.error = NULL
                 /\ r.request = JSONstringify(req)
            /\ alarm' = Some(now + 100)
            /\ setAlarms' = setAlarms + 1
            /\ resp' = [status |-> 200,
                        body |-> [accepted |-> TRUE, job_id |-> req.job_id]]
            /\ UNCHANGED <<pc, al, pj, klados_logs, source, children, processJobs>>
     /\ <<klados_logs, source, children, processJobs>>' #
          <<klados_logs, source, children, processJobs>>
          => pc # "idle" \/ pc' # "idle" \/ outcome' # outcome]_vars

\* the start call has answered and nothing but the record and the alarm exists
C9_Witness ==
  /\ jobStatus = "accepted"
  /\ alarm = Some(100)
  /\ resp = [status |-> 200, body |-> [accepted |-> TRUE, job_id |-> JobId]]
  /\ klados_logs = <<>>
  /\ processJobs = 0

\* C10: status() answers 404 not_found without a JobRecord and the record's
\* status and error otherwise, and changes nothing else.
C10_StatusIsReadOnly ==
  [][Status =>
       /\ resp' = IF hasRecord
                  THEN [status |-> 200,
                        body |-> [status |-> record.status, error |-> record.error]]
                  ELSE [status |-> 404, body |-> [status |-> "not_found"]]
       /\ UNCHANGED <<job_state, alarm, now, pc, al, pj, outcome, klados_logs,
                      source, children, setAlarms, processJobs>>]_vars

\* status() answered with the error of a failed job
C10_Witness ==
  /\ jobStatus = "error"
  /\ resp = [status |-> 200,
             body |-> [status |-> "error",
                       error |-> Some(<<"No target_entity in request">>)]]

\* C11: when every upstream call of an invocation of callMistralOCR failed
\* with a retryable error, the invocation has made exactly maxRetries + 1
\* upstream calls when it fails, never more before, and it fails with the
\* error of the last call.
C11_RetriesExhausted ==
  (invocation.retryableFailures = invocation.calls) =>
    /\ invocation.calls <= invocation.maxRetries + 1
    /\ invocation.at # "returned"
    /\ invocation.at = "threw" =>
         /\ invocation.calls = invocation.maxRetries + 1
         /\ invocation.thrown = invocation.lastError

\* the default maxRetries: four calls, all failed retryably, then the throw
C11_Witness ==
  /\ invocation.maxRetries = maxRetriesDefault
  /\ invocation.at = "threw"
  /\ invocation.retryableFailures = 4
  /\ invocation.calls = 4

\* C12: an upstream call that fails with a non-retryable error makes
\* callMistralOCR throw that error at once: no sleep, no further upstream
\* call; on the first attempt that is exactly one upstream call.
C12_NonRetryableThrowsAtOnce ==
  [][/\ (/\ invocation.at = "ocr_process"
         /\ invocation'.calls = invocation.calls + 1
         /\ invocation'.lastError # NULL
         /\ ~(\E w \in {"rate limit", "timeout", "503", "502", "500"} :
                includes(errorMessageOf(Val(invocation'.lastError)), w)
                /\ Val(invocation'.lastError).instanceofError)) =>
          /\ invocation'.at = "threw"
          /\ invocation'.thrown = invocation'.lastError
          /\ invocation'.slept = invocation.slept
          /\ invocation.attempt = 0 => invocation'.calls = 1
     /\ invocation.at = "threw" => invocation' = invocation]_vars

\* a non-retryable error on the first attempt: one call, no sleep
C12_Witness ==
  /\ invocation.at = "threw"
  /\ invocation.calls = 1
  /\ invocation.slept = NULL
  /\ invocation.thrown = Some(Error(<<"Status", "401">>))

\* C20: for the attempt n of every backoff sleep, the deterministic part of
\* the delay is min(1000 * 2^n, 30000) ms, it does not decrease from one
\* attempt to the next, and the delay lies between that value and 1.25 times
\* that value, hence is at most 30000 * 1.25 ms.
C20_BackoffBounds ==
  invocation.slept # NULL =>
    LET n == Val(invocation.slept).attempt
        delayMs == Val(invocation.slept).delayMs
        d == IF 1000 * 2^n < 30000 THEN 1000 * 2^n ELSE 30000
    IN /\ delay(n, baseMsDefault, maxMsDefault) = d
       /\ \A k \in 0 .. n : delay(k, baseMsDefault, maxMsDefault)
                               <= delay(k + 1, baseMsDefault, maxMsDefault)
       /\ d * delayMs.den <= delayMs.num
       /\ 4 * delayMs.num <= 5 * d * delayMs.den
       /\ 4 * delayMs.num <= 5 * 30000 * delayMs.den

\* a sleep after attempt 5, where 1000 * 2^5 exceeds the cap, with jitter
C20_Witness ==
  /\ invocation.slept # NULL
  /\ Val(invocation.slept).attempt = 5
  /\ Val(invocation.slept).delayMs.num > 30000 * Val(invocation.slept).delayMs.den

\* C13: when both jobs have read the same version token and one update has
\* succeeded, the other job's update fails with Conflict and leaves the source
\* entity as it is; the job whose update failed ends in status error.
C13_SecondUpdateConflicts ==
  [][/\ (/\ pc = "PUT_entity" /\ pc' # "PUT_entity"
         /\ pj.tipData = other.tipData
         /\ other.updated = Some(TRUE)) =>
          /\ source' = source
          /\ pc' = "failKlados"
          /\ includes(Val(al'.errorMessage), "Failed to update entity with OCR text")
     /\ (/\ other.updated = NULL /\ other'.updated # NULL
         /\ pj.tipData = other.tipData
         /\ source.tip # Val(other.tipData).cid) =>
          /\ source' = source
          /\ other'.updated = Some(FALSE)
     /\ (/\ pc = "failKlados" /\ pc' = "idle"
         /\ includes(Val(al.errorMessage), "Conflict")) =>
          jobStatus' = "error"]_vars

\* the rewritten markdown the running pipeline holds is blank
C14_blank(p) ==
  /\ p.transformedMarkdown # NULL
  /\ \A i \in DOMAIN Val(p.transformedMarkdown) :
       Val(p.transformedMarkdown)[i].kind = "space"

\* C14, as stated: with blank rewritten markdown the pipeline neither reads
\* the version token nor updates the source entity, and the job ends done
\* (a run that ends without any status written is left aside here).
C14_BlankTextJobEndsDone ==
  [][/\ C14_blank(pj') =>
          /\ source' = source
          /\ pj'.tipData = NULL
          /\ pc' \notin {"GET_tip", "PUT_entity"}
     /\ (C14_blank(pj) /\ pc' = "idle") =>
          jobStatus' = "done" \/ outcome'.ended = "rejected"]_vars

\* C14, amended: with blank rewritten markdown the pipeline neither reads the
\* version token nor updates the source entity, so its run cannot fail with
\* Conflict, and processJob returns the target as its output; the job then
\* ends done when the handoff and the finalization of the log succeed, and
\* otherwise the run ends through the failure handling of alarm().
C14_BlankTextSkipsUpdate ==
  [][/\ C14_blank(pj') =>
          /\ source' = source
          /\ pj'.tipData = NULL
          /\ pc' \notin {"GET_tip", "PUT_entity"}
          /\ al'.result # NULL
          /\ Val(al'.result).outputs = Some(<<SourceId>>)
          /\ al'.errorMessage # NULL =>
               /\ ~includes(Val(al'.errorMessage), "Failed to get entity tip")
               /\ ~includes(Val(al'.errorMessage),
                            "Failed to update entity with OCR text")
     /\ (C14_blank(pj) /\ pc' = "idle") =>
          /\ source' = source
          /\ pc \in {"updateLogStatus", "failKlados"}
          /\ pc = "updateLogStatus" => jobStatus' = "done"]_vars

\* the pipeline has returned with blank text after creating a child, and
\* alarm() is finalizing the log
C14_Witness ==
  /\ C14_blank(pj)
  /\ pc = "updateLogStatus"
  /\ Len(children) = 1
  /\ source = NoSource

\* what C15 says resolveJpegFile yields for files and key, where given tells
\* whether an explicit key counts as given
C15_resolves(files, key, given, r) ==
  LET jpegs == {i \in DOMAIN files : files[i].content_type = "image/jpeg"}
      named == {i \in jpegs : key # NULL /\ files[i].key = Val(key)}
  IN IF given
     THEN IF named # {}
          THEN /\ r.error = NULL
               /\ r.fileKey = key
               /\ \E i \in named : r.fileMeta = Some(files[i])
          ELSE /\ r.error # NULL
               /\ r.fileKey = NULL
               /\ \/ includes(Val(r.error).message, "File not found on entity")
                  \/ includes(Val(r.error).message, "File is not a JPEG")
     ELSE IF jpegs # {}
          THEN /\ r.error = NULL
               /\ \E i \in jpegs : /\ \A j \in jpegs : i <= j
                                    /\ r.fileKey = Some(files[i].key)
                                    /\ r.fileMeta = Some(files[i])
          ELSE /\ r.error # NULL
               /\ r.fileKey = NULL
               /\ includes(Val(r.error).message, "No JPEG file found on entity")

\* C15, as stated: a file key given in the request, whatever it is, is
\* resolved to that key or fails, never falling back to auto-detection;
\* without a key the first JPEG in iteration order is resolved, or it fails.
C15_ExplicitKeyNeverFallsBack ==
  (invocation.of = "resolveJpegFile" /\ invocation.at = "done") =>
    C15_resolves(listEntityFiles(invocation.target), invocation.targetFileKey,
                 invocation.targetFileKey # NULL, Val(invocation.result))

\* C15, amended: a non-empty file key given in the request is resolved to
\* that key or fails, never falling back to auto-detection; without a key,
\* or with the empty string as key, the first JPEG in iteration order is
\* resolved, or it fails.
C15_NonEmptyKeyNeverFallsBack ==
  (invocation.of = "resolveJpegFile" /\ invocation.at = "done") =>
    C15_resolves(listEntityFiles(invocation.target), invocation.targetFileKey,
                 invocation.targetFileKey \notin {NULL, Some("")},
                 Val(invocation.result))

\* the explicit key names a PNG while a JPEG exists: an error, no fallback
C15_Witness ==
  /\ invocation.of = "resolveJpegFile"
  /\ invocation.at = "done"
  /\ invocation.targetFileKey = Some("a")
  /\ invocation.target.content = Some(<<File("a", "image/png", Some(5000)),
                                         File("b", "image/jpeg", Some(5000))>>)
  /\ Val(invocation.result).error # NULL

\* C16: replaceImageRefs changes image links only: a link whose target,
\* with a trailing .jpeg/.jpg/.png stripped, is mapped to E becomes
\* ![alt](arke:E); else one whose raw target is mapped to E becomes
\* ![alt](arke:E); else the link stays as it is; everything else stays.
C16_ReferenceRewriting ==
  (invocation.of = "replaceImageRefs" /\ invocation.at = "done") =>
    LET markdown == invocation.markdown
        idMap == invocation.imageIdMap
        result == Val(invocation.result)
        stripped(t) ==
          IF t.suffix \in {".jpeg", ".jpg", ".png", ".JPEG", ".JPG", ".PNG"}
          THEN [t EXCEPT !.suffix = ""] ELSE t
    IN /\ DOMAIN result = DOMAIN markdown
       /\ \A i \in DOMAIN markdown :
            IF markdown[i].kind # "image" THEN result[i] = markdown[i]
            ELSE LET target == markdown[i].src
                 IN IF stripped(target) \in DOMAIN idMap
                    THEN result[i] = [kind |-> "image", alt |-> markdown[i].alt,
                                      src |-> Ref("arke:", idMap[stripped(target)], "")]
                    ELSE IF target \in DOMAIN idMap
                    THEN result[i] = [kind |-> "image", alt |-> markdown[i].alt,
                                      src |-> Ref("arke:", idMap[target], "")]
                    ELSE result[i] = markdown[i]

\* ![fig](img-0.jpeg) with both img-0 and img-0.jpeg mapped becomes a link to
\* the entity img-0 is mapped to, next to an unmapped link left as it is
C16_Witness ==
  /\ invocation.of = "replaceImageRefs"
  /\ invocation.at = "done"
  /\ invocation.markdown = <<Image("fig", Ref("", "img-0", ".jpeg")),
                             Image("fig", Ref("", "img-9", ".jpeg"))>>
  /\ Ref("", "img-0", ".jpeg") \in DOMAIN invocation.imageIdMap
  /\ Ref("", "img-0", "") \in DOMAIN invocation.imageIdMap
  /\ invocation.imageIdMap[Ref("", "img-0", "")] = "E1"
  /\ invocation.imageIdMap[Ref("", "img-0", ".jpeg")] = "E2"
  /\ Val(invocation.result) = <<Image("fig", Ref("arke:", "E1", "")),
                                Image("fig", Ref("", "img-9", ".jpeg"))>>

\* C17: when the only pipeline run of a job ends with the job done (so the
\* target had a JPEG file and every external call succeeded) and OCR
\* returned non-blank text with k images carrying a payload, then exactly k
\* child entities with content exist, the source entity was updated exactly
\* once, with non-empty text, text_source 'ocr', the model name,
\* ocr_images_extracted = k and ocr_source_file_key = the resolved key, the
\* log is finalized as done and the status is done.
C17_EndToEndSuccess ==
  [][(/\ pc = "updateLogStatus" /\ pc' = "idle"
      /\ jobStatus' = "done"
      /\ processJobs = 1
      /\ \E i \in DOMAIN Val(pj.ocrResult).markdown :
           Val(pj.ocrResult).markdown[i].kind # "space") =>
       LET images == Val(pj.ocrResult).images
           k == Cardinality({i \in DOMAIN images : images[i].imageBase64 # NULL})
           properties == Val(source'.properties)
       IN /\ Len(children') = k
          /\ \A n \in DOMAIN children' :
               /\ children'[n].content # NULL
               /\ children'[n].relationships[1].peer = SourceId
          /\ source'.tip = NoSource.tip + 1
          /\ source'.properties # NULL
          /\ properties.text # <<>>
          /\ \E i \in DOMAIN properties.text : properties.text[i].kind # "space"
          /\ properties.text_source = "ocr"
          /\ properties.ocr_model = "mistral-ocr-latest"
          /\ properties.ocr_images_extracted = k
          /\ properties.ocr_source_file_key = Val(pj.fileKey)
          /\ Len(source'.relationships_add) = k
          /\ Len(klados_logs') = 1
          /\ klados_logs'[1].status = "done"
          /\ outcome'.ended = "done"]_vars

\* the job is done after one pipeline run: one child, the source updated once
C17_Witness ==
  /\ jobStatus = "done"
  /\ processJobs = 1
  /\ Len(children) = 1
  /\ source.tip = 2
  /\ source.properties # NULL
  /\ Val(source.properties).ocr_images_extracted = 1
  /\ Val(source.properties).ocr_source_file_key = "b"
  /\ klados_logs[1].status = "done"

\* C18: when the target entity fetched has no file of content type
\* image/jpeg and the request names no file key, the pipeline fails at once
\* with the message that no JPEG file was found, and the job ends with status
\* error carrying that message and its log finalized as error, without a
\* download, an OCR call, a child created or the source entity updated.
C18_NoJpegEndsInError ==
  [][/\ (/\ pc = "GET_target" /\ pc' # "GET_target"
         /\ pj'.target # NULL
         /\ Val(al.request).input.target_file_key = NULL
         /\ \A i \in DOMAIN listEntityFiles(Val(pj'.target)) :
              listEntityFiles(Val(pj'.target))[i].content_type # "image/jpeg") =>
          /\ pc' = "failKlados"
          /\ includes(Val(al'.errorMessage), "No JPEG file found on entity")
          /\ pj'.fileKey = NULL /\ pj'.ocrResult = NULL
          /\ UNCHANGED <<children, source>>
     /\ (/\ pc = "failKlados" /\ pc' = "idle"
         /\ includes(Val(al.errorMessage), "No JPEG file found on entity")) =>
          /\ jobStatus' = "error"
          /\ record'.error = al.errorMessage
          /\ klados_logs'[Val(al.logFileId)].status = "error"
          /\ UNCHANGED <<children, source>>]_vars

C21_StepsInOrderNoRollback ==
  [][/\ (pc' = "GET_content" /\ pc # "GET_content") =>
          /\ pc = "GET_target"
          /\ pj'.fileKey # NULL
          /\ Val(pj'.fileMeta).content_type = "image/jpeg"
          /\ Val(pj'.fileMeta).key = Val(pj'.fileKey)
          /\ Val(Val(pj'.fileMeta).size) <= 20971520
     /\ (pc' = "ocr_process" /\ pc # "ocr_process") =>
          /\ pc \in {"GET_content", "sleep"}
          /\ pj.fileKey # NULL
     /\ children' # children =>
          /\ pc \in {"POST_entity", "POST_content"}
          /\ pj.ocrResult # NULL
          /\ Len(children') >= Len(children)
          /\ \A n \in DOMAIN children :
               /\ children'[n].id = children[n].id
               /\ children[n].content # NULL => children'[n] = children[n]
     /\ source' # source =>
          /\ pc = "PUT_entity"
          /\ LET images == Val(pj.ocrResult).images
                 payload == {i \in DOMAIN images : images[i].imageBase64 # NULL}
             IN /\ Len(pj.extractedEntities) = Cardinality(payload)
                /\ \A k \in DOMAIN pj.extractedEntities :
                     \E n \in DOMAIN children :
                       /\ children[n].id = pj.extractedEntities[k]
                       /\ children[n].content # NULL
     /\ (al.errorMessage = NULL /\ al'.errorMessage # NULL) =>
          pc' = "failKlados"
     /\ pc = "failKlados" =>
          /\ pc' \in {"failKlados", "idle"}
          /\ UNCHANGED <<children, source, processJobs>>]_vars

\* a job has ended in error after a child was created and given content:
\* the child is still there, the source entity was not updated
C21_Witness ==
  /\ jobStatus = "error"
  /\ processJobs = 1
  /\ Len(children) = 1
  /\ children[1].content # NULL
  /\ source = NoSource

\* C22: processJob is invoked only when the record holds a log_file_id; when
\* the initial write of the log fails, processJob is not invoked, log_file_id
\* stays unset, no finalization of the log is attempted, no alarm is armed,
\* and the job ends in status error with the message stored.
C22_PipelineOnlyAfterLogPersisted ==
  [][/\ processJobs' # processJobs =>
          /\ record'.log_file_id # NULL
          /\ Val(record'.log_file_id) \in DOMAIN klados_logs'
     /\ (pc = "writeKladosLog" /\ pc' # "writeKladosLog"
         /\ klados_logs' = klados_logs) =>
          /\ pc' = "idle"
          /\ processJobs' = processJobs
          /\ record'.log_file_id = NULL
          /\ jobStatus' = "error"
          /\ record'.error # NULL
          /\ alarm' = NULL
          /\ setAlarms' = setAlarms
          /\ outcome'.ended = "error"
          /\ UNCHANGED <<children, source>>]_vars

\* the initial write of the log failed: the job is in error without a log,
\* without a pipeline run and without an alarm
C22_Witness ==
  /\ jobStatus = "error"
  /\ record.log_file_id = NULL
  /\ klados_logs = <<>>
  /\ processJobs = 0
  /\ alarm = NULL

\* C23: when the pipeline returns reschedule = true, alarm() arms one alarm
\* at now + 1000 and returns: the status stays processing, error stays unset,
\* log_file_id and the log stay as they are (no handoff, no finalization);
\* when that alarm fires, processJob is invoked again and no log is written.
C23_RescheduleRearmsOnly ==
  [][/\ (pc = "GET_target" /\ pc' = "idle" /\ outcome'.ended = "rescheduled") =>
          /\ alarm = NULL
          /\ alarm' = Some(now + 1000)
          /\ setAlarms' = setAlarms + 1
          /\ jobStatus = "processing" /\ jobStatus' = "processing"
          /\ record'.error = NULL
          /\ record'.log_file_id # NULL
          /\ job_state' = job_state
          /\ klados_logs' = klados_logs
          /\ klados_logs[Val(record.log_file_id)].status = "running"
     /\ (pc = "idle" /\ outcome.ended = "rescheduled"
         /\ alarm # NULL /\ alarm' = NULL) =>
          /\ processJobs' = processJobs + 1
          /\ pc' = "GET_target"
          /\ klados_logs' = klados_logs
          /\ Len(klados_logs) = 1
     /\ (pc = "idle" /\ outcome.ended = "rescheduled") =>
          alarm # NULL /\ jobStatus = "processing"]_vars

\* the pipeline runs for the second time after a reschedule: two alarms
\* were armed, one log entry exists
C23_Witness ==
  /\ outcome.ended = "rescheduled"
  /\ pc = "GET_target"
  /\ processJobs = 2
  /\ setAlarms = 2
  /\ Len(klados_logs) = 1

\* C24: processJob never returns reschedule = true and returns the target
\* entity as its one output; so over the life of the job processJob is
\* invoked at most once (and with it the OCR client, called once per
\* invocation) and the source entity is updated at most once.
C24_PipelineRunsAtMostOnce ==
  /\ outcome.ended # "rescheduled"
  /\ al.result # NULL =>
       /\ Val(al.result).reschedule = NULL
       /\ Val(al.result).outputs = Some(<<SourceId>>)
  /\ processJobs <= 1
  /\ source.tip <= NoSource.tip + 1

\* C25: the workflow handoff (the fetch of the workflow, interpretThen, the
\* record of the handoff in the log) runs only for a request with workflow
\* context, only after processJob returned outputs without reschedule, and
\* only while the log is not finalized and the status is processing; when
\* one of its calls fails after the pipeline succeeded, the job ends in
\* status error.
C25_HandoffOnlyInWorkflow ==
  [][/\ pc' \in {"GET_rhiza", "interpretThen", "updateLogWithHandoffs"} =>
          /\ Val(al'.request).rhiza # NULL
          /\ al'.result # NULL
          /\ Val(al'.result).outputs # NULL
          /\ Val(al'.result).reschedule # Some(TRUE)
          /\ jobStatus' = "processing"
          /\ klados_logs'[Val(al'.logFileId)].status = "running"
     /\ pc' = "interpretThen" => pc \in {"GET_rhiza", "interpretThen"}
     /\ (pc \in {"GET_rhiza", "interpretThen", "updateLogWithHandoffs"}
         /\ pc' \notin {"GET_rhiza", "interpretThen", "updateLogWithHandoffs",
                         "updateLogStatus"}) =>
          /\ pc' = "failKlados"
          /\ al'.errorMessage # NULL
     /\ (pc = "failKlados" /\ pc' = "idle" /\ al.result # NULL
         /\ includes(Val(al.errorMessage), "Failed to fetch rhiza")) =>
          jobStatus' = "error"]_vars

\* C26: a job becomes done only when processJob has returned outputs and
\* with its log finalized as done; a job in error with a log_file_id has its
\* log finalized as error; and a log is finalized only once: its status
\* changes only from running, and a finalization succeeds only on a log
\* that is running.
C26_StatusAndLogAgree ==
  [][/\ (jobStatus' = "done" /\ jobStatus # "done") =>
          /\ pc = "updateLogStatus"
          /\ al.result # NULL
          /\ Val(al.result).outputs = Some(<<SourceId>>)
          /\ klados_logs[Val(al.logFileId)].status = "running"
     /\ jobStatus' = "done" =>
          /\ record'.log_file_id # NULL
          /\ klados_logs'[Val(record'.log_file_id)].status = "done"
     /\ (jobStatus' = "error" /\ record'.log_file_id # NULL) =>
          /\ klados_logs'[Val(record'.log_file_id)].status = "error"
          /\ klados_logs'[Val(record'.log_file_id)].error = record'.error
     /\ (jobStatus' = "error" /\ jobStatus # "error"
         /\ record'.log_file_id # NULL) =>
          /\ pc = "failKlados"
          /\ klados_logs[Val(al.logFileId)].status = "running"
     /\ \A n \in DOMAIN klados_logs :
          klados_logs'[n].status # klados_logs[n].status =>
            klados_logs[n].status = "running"]_vars

\* a job in error whose log was finalized as error after its pipeline had
\* created a child
C26_Witness ==
  /\ jobStatus = "error"
  /\ record.log_file_id # NULL
  /\ klados_logs[1].status = "error"
  /\ klados_logs[1].error = record.error
  /\ Len(children) = 1

\* C27: callMistralOCR with maxRetries = m >= 0 terminates, for every sequence
\* of upstream outcomes, and from then on: it made at most m + 1 calls; it
\* slept once between two consecutive calls; if it returned, it returned the
\* result of its last call, which was its only successful one, every earlier
\* call having failed with a retryable error; and if it threw, it threw the
\* error of the last call it made.
C27_TerminatesWithinBudget ==
  <>[](/\ invocation.at \in {"returned", "threw"}
       /\ invocation.calls >= 1
       /\ invocation.calls <= invocation.maxRetries + 1
       /\ invocation.sleeps = invocation.calls - 1
       /\ invocation.at = "returned" =>
            /\ invocation.lastError = NULL
            /\ invocation.thrown = NULL
            /\ invocation.result \in {Some(toOCRResult(r)) : r \in OcrResponses}
            /\ invocation.retryableFailures = invocation.calls - 1
       /\ invocation.at = "threw" =>
            /\ invocation.result = NULL
            /\ invocation.lastError # NULL
            /\ invocation.thrown = invocation.lastError)

\* the third call succeeded, after two retryable failures and two sleeps
C27_Witness ==
  /\ invocation.of = "callMistralOCR"
  /\ invocation.at = "returned"
  /\ invocation.calls = 3
  /\ invocation.sleeps = 2
  /\ invocation.retryableFailures = 2
  /\ invocation.maxRetries >= 3

\* C28, as stated: when another writer's update of the source entity is
\* applied at any point of a run of the pipeline after its step 1, the PUT of
\* step 8 of that run fails and leaves the source entity as it is.
C28_WriteAfterStep1Conflicts ==
  [][(/\ pc = "PUT_entity" /\ pc' # "PUT_entity"
      /\ other.landed # NULL
      /\ Val(other.landed).run = processJobs
      /\ Val(other.landed).pc \in {"GET_content", "ocr_process", "sleep",
                                    "POST_entity", "POST_content", "GET_tip",
                                    "PUT_entity"}) =>
       /\ source' = source
       /\ pc' = "failKlados"
       /\ includes(Val(al'.errorMessage), "Failed to update entity with OCR text")]_vars

\* C28, amended: when another writer's update of the source entity is applied
\* after the pipeline has read the version token in step 8 (GET tip) and
\* before its PUT, the PUT fails and leaves the source entity as it is.
C28_WriteAfterTipReadConflicts ==
  [][(/\ pc = "PUT_entity" /\ pc' # "PUT_entity"
      /\ other.landed # NULL
      /\ Val(other.landed).run = processJobs
      /\ Val(other.landed).pc = "PUT_entity") =>
       /\ source' = source
       /\ pc' = "failKlados"
       /\ includes(Val(al'.errorMessage), "Failed to update entity with OCR text")]_vars

\* the other writer's update was applied between the GET tip and the PUT of
\* the running pipeline, whose PUT then failed with Conflict
C28_Witness ==
  /\ other.landed # NULL
  /\ Val(other.landed).run = processJobs
  /\ Val(other.landed).pc = "PUT_entity"
  /\ pc = "failKlados"
  /\ includes(Val(al.errorMessage), "Conflict")
  /\ Val(source.properties).text = <<Text("Other")>>

\* the source entity carries a has_extracted relationship to the entity id
C29_related(src, id) ==
  \E k \in DOMAIN src.relationships_add :
    /\ src.relationships_add[k].predicate = "has_extracted"
    /\ src.relationships_add[k].peer = id

\* C29, as stated: when the job is done, the source entity carries a
\* relationship to every child entity created and, if there is one, the image
\* count recorded on it is the number of children created.
C29_DoneSourceRelatesAllChildren ==
  jobStatus = "done" =>
    /\ \A k \in DOMAIN children : C29_related(source, children[k].id)
    /\ children # <<>> =>
         /\ source.properties # NULL
         /\ Val(source.properties).ocr_images_extracted = Len(children)

\* C29, amended: when the job becomes done after a run of the pipeline whose
\* rewritten text is not blank, the source entity carries a relationship to
\* every child that run created and the image count recorded on it is the
\* number of those children (all the children there are, when it is the only
\* run); when the rewritten text is blank, the run leaves the source entity
\* without a relationship to its children.
C29_DoneRunRelatesItsChildren ==
  [][(jobStatus' = "done" /\ jobStatus # "done") =>
       IF \E i \in DOMAIN Val(pj.transformedMarkdown) :
            Val(pj.transformedMarkdown)[i].kind # "space"
       THEN /\ \A k \in DOMAIN pj.extractedEntities :
                 C29_related(source', pj.extractedEntities[k])
            /\ source'.properties # NULL
            /\ Val(source'.properties).ocr_images_extracted =
                 Len(pj.extractedEntities)
            /\ processJobs = 1 =>
                 /\ Len(source'.relationships_add) = Len(children')
                 /\ pj.extractedEntities =
                      [k \in DOMAIN children' |-> children'[k].id]
       ELSE /\ \A k \in DOMAIN pj.extractedEntities :
                 ~C29_related(source', pj.extractedEntities[k])
            /\ processJobs = 1 => source' = NoSource]_vars

\* a job that is done after its one run created a child and updated the
\* source entity
C29_Witness ==
  /\ jobStatus = "done"
  /\ processJobs = 1
  /\ Len(children) = 1
  /\ C29_related(source, children[1].id)
  /\ Val(source.properties).ocr_images_extracted = 1

\* an OCR image that carries a non-empty inline payload
C30_carries(img) == img.imageBase64 \notin {NULL, Some(<<>>)}

\* C30: when step 6 of a run completes, the run has created one child per OCR
\* image with a non-empty payload, in OCR order, and has raised no error; the
\* j-th child carries the source file key, the bounding box and the
\* reference of the j-th such image, its content, and a relationship back to
\* the source entity; and imageIdMap binds the reference of every such image,
\* and nothing else, to the id of a child created for it.
C30_Step6OneChildPerPayload ==
  [][(pj.transformedMarkdown = NULL /\ pj'.transformedMarkdown # NULL) =>
       LET imgs == SelectSeq(Val(pj'.ocrResult).images, C30_carries)
           m == Len(imgs)
           n == Len(children')
       IN /\ al'.errorMessage = NULL
          /\ Len(pj'.extractedEntities) = m
          /\ n >= m
          /\ processJobs = 1 => n = m
          /\ \A j \in 1 .. m :
               LET child == children'[n - m + j]
               IN /\ child.id = pj'.extractedEntities[j]
                  /\ child.properties.source_file_key = Val(pj'.fileKey)
                  /\ child.properties.source_image_ref = imgs[j].id
                  /\ child.properties.source_bbox =
                       [x1 |-> imgs[j].topLeftX, y1 |-> imgs[j].topLeftY,
                        x2 |-> imgs[j].bottomRightX, y2 |-> imgs[j].bottomRightY]
                  /\ child.content # NULL
                  /\ \E k \in DOMAIN child.relationships :
                       /\ child.relationships[k].predicate = "extracted_from"
                       /\ child.relationships[k].peer = SourceId
                  /\ imgs[j].id \in DOMAIN pj'.imageIdMap
                  /\ \E j2 \in 1 .. m :
                       /\ imgs[j2].id = imgs[j].id
                       /\ pj'.imageIdMap[imgs[j].id] = pj'.extractedEntities[j2]
          /\ DOMAIN pj'.imageIdMap = {imgs[j].id : j \in 1 .. m}]_vars

\* step 6 is over for an OCR result of four images, two of them without a
\* payload: two children, in OCR order
C30_Witness ==
  /\ pj.transformedMarkdown # NULL
  /\ Len(Val(pj.ocrResult).images) = 4
  /\ Len(pj.extractedEntities) = 2
  /\ Len(children) = 2
  /\ children[1].properties.source_image_ref = Ref("", "img-1", "")
  /\ children[2].properties.source_image_ref = Ref("", "img-3", "")
  /\ pj.imageIdMap[Ref("", "img-3", "")] = children[2].id

\* C33: when step 1 has fetched a target whose JPEG file resolves, the run
\* fails at once with "File is too large", without a download or an OCR
\* call, if and only if the declared size of the file is more than
\* 20 * 1024 * 1024 bytes; with a size of exactly that, of zero or with no
\* declared size, the run goes on to the download.
C33_SizeCheck ==
  [][(pc = "GET_target" /\ pc' # "GET_target" /\ pj'.target # NULL) =>
       LET size == Val(Val(pj'.target).content)[1].size
           over == size # NULL /\ Val(size) > 20971520
       IN /\ over =>
               /\ pc' = "failKlados"
               /\ includes(Val(al'.errorMessage), "File is too large")
               /\ pj'.fileMeta = NULL
          /\ ~over =>
               /\ pc' = "GET_content"
               /\ al'.errorMessage = NULL
               /\ Val(pj'.fileMeta).size = size]_vars

\* a file of 20 MiB and one byte was refused at step 3
C33_Witness ==
  /\ pc = "failKlados"
  /\ pj.target # NULL
  /\ Val(Val(pj.target).content)[1].size = Some(20971521)
  /\ includes(Val(al.errorMessage), "File is too large")

\* an optional field of the response is absent
C34_absent(x) == x \in {NULL, undefined}

\* the field of the result is null when that of the response is absent, and
\* the value of the response otherwise
C34_mapped(out, in) ==
  /\ C34_absent(in) => out = NULL
  /\ ~C34_absent(in) => out = in

\* C34: the result is made from the first page only: text empty when there
\* is no first page or its markdown is absent, the markdown otherwise; no
\* images when there is no first page or its image list is absent, and
\* otherwise the images of the page in their order, each with its id, each
\* absent coordinate null, each present coordinate kept, 0 staying 0.
C34_FirstPageMapping ==
  (invocation.of = "toOCRResult" /\ invocation.at = "done") =>
    LET pages == invocation.response.pages
        result == Val(invocation.result)
    IN IF C34_absent(pages) \/ Len(Val(pages)) = 0
       THEN result = [markdown |-> <<>>, images |-> <<>>]
       ELSE LET page == Val(pages)[1]
            IN /\ C34_absent(page.markdown) => result.markdown = <<>>
               /\ ~C34_absent(page.markdown) =>
                    result.markdown = Val(page.markdown)
               /\ C34_absent(page.images) => result.images = <<>>
               /\ ~C34_absent(page.images) =>
                    /\ Len(result.images) = Len(Val(page.images))
                    /\ \A i \in DOMAIN result.images :
                         LET in == Val(page.images)[i]
                             out == result.images[i]
                         IN /\ out.id = in.id
                            /\ C34_mapped(out.topLeftX, in.topLeftX)
                            /\ C34_mapped(out.topLeftY, in.topLeftY)
                            /\ C34_mapped(out.bottomRightX, in.bottomRightX)
                            /\ C34_mapped(out.bottomRightY, in.bottomRightY)
                            /\ C34_mapped(out.imageBase64, in.imageBase64)
                            /\ in.topLeftX = Some(0) => out.topLeftX = Some(0)

\* a response of two pages was mapped: two images of the first page in their
\* order, a coordinate 0 kept and an absent one null
C34_Witness ==
  /\ invocation.of = "toOCRResult"
  /\ invocation.at = "done"
  /\ Len(Val(invocation.response.pages)) = 2
  /\ Len(Val(invocation.result).images) = 2
  /\ Val(invocation.result).images[1].id = Ref("", "img-1", "")
  /\ Val(invocation.result).images[2].id = Ref("", "img-0", "")
  /\ Val(Val(invocation.response.pages)[1].images)[1].topLeftX = Some(0)
  /\ Val(invocation.result).images[1].topLeftX = Some(0)
  /\ Val(Val(invocation.response.pages)[1].images)[2].topLeftX = undefined
  /\ Val(invocation.result).images[2].topLeftX = NULL

\* C35: with an imageIdMap none of whose keys is an arke: URI, replaceImageRefs
\* applied to its own result returns that result; and with an empty
\* imageIdMap replaceImageRefs returns the markdown it was given.
C35_RewritingIdempotent ==
  invocation.of = "replaceImageRefsTwice" =>
    /\ (/\ invocation.at = "twice"
        /\ \A key \in DOMAIN invocation.imageIdMap : key.scheme # "arke:") =>
         invocation.twice = invocation.once
    /\ (invocation.at # "start" /\ DOMAIN invocation.imageIdMap = {}) =>
         invocation.once = Some(invocation.markdown)

\* a link to img-0.jpeg was rewritten to arke:E1 with a map that also maps
\* the reference E1, and the second application left arke:E1 as it is
C35_Witness ==
  /\ invocation.of = "replaceImageRefsTwice"
  /\ invocation.at = "twice"
  /\ invocation.markdown = <<Image("fig", Ref("", "img-0", ".jpeg"))>>
  /\ DOMAIN invocation.imageIdMap = {Ref("", "img-0", ""), Ref("", "E1", "")}
  /\ invocation.imageIdMap[Ref("", "E1", "")] = "E2"
  /\ invocation.once = Some(<<Image("fig", Ref("arke:", "E1", ""))>>)
  /\ invocation.twice = invocation.once

\* C32: an alarm is pending only while the JobRecord exists with status
\* accepted or processing; setAlarm is called only when no alarm is pending,
\* so that no pending alarm is replaced and at most one is pending; and the
\* pending alarm fires only for a job whose record exists, in status
\* accepted or processing.
C32_OnePendingWakeUp ==
  [][/\ alarm' # NULL =>
          /\ Cardinality(job_state') = 1
          /\ jobStatus' \in {"accepted", "processing"}
     /\ setAlarms' # setAlarms =>
          /\ setAlarms' = setAlarms + 1
          /\ alarm = NULL
          /\ alarm' # NULL
     /\ alarm' # alarm => (alarm = NULL \/ alarm' = NULL)
     /\ (alarm # NULL /\ alarm' = NULL) =>
          /\ pc = "idle"
          /\ hasRecord
          /\ jobStatus \in {"accepted", "processing"}
          /\ job_state' = UpdateStatus(job_state, "processing")]_vars

\* the alarm armed by a rescheduling run is pending, the job in processing
C32_Witness ==
  /\ alarm # NULL
  /\ setAlarms = 2
  /\ jobStatus = "processing"
  /\ outcome.ended = "rescheduled"
  /\ pc = "idle"

\* C31, as stated: a restart in the middle of alarm() leaves the JobRecord
\* as it is, and after a restart the job eventually reaches done or error,
\* given that the alarm is delivered again and every awaited call returns.
C31_RestartSurvived ==
  /\ [][(pc # "idle" /\ outcome'.ended = "aborted" /\ pc' = "idle") =>
          job_state' = job_state]_vars
  /\ (outcome.ended = "aborted") ~> (jobStatus \in {"done", "error"})

====
